---------------------------- MODULE Spec2Model ----------------------------
(***************************************************************************)
(* NEBULA steganographic codec: password-based encryption with a marker,   *)
(* the bit framing (32-bit length header, payload, 16-bit end delimiter),  *)
(* the capacity checks and the LSB embed/extract loops of the image and    *)
(* audio hooks.                                                            *)
(*                                                                         *)
(* Strings are sequences of UTF-16 code units (naturals), bit strings are  *)
(* sequences over {0,1}.  JavaScript values that can be a string, null or  *)
(* a thrown exception are records [kind, val, msg].                        *)
(***************************************************************************)
EXTENDS Integers, Sequences, FiniteSets, TLC

(***************************************************************************)
(* Bounds of the model.                                                    *)
(***************************************************************************)
\* number of leading audio samples the model keeps explicitly
AudioWindow == 200
\* largest width and height, and longest text, given to the capacity planner
MaxDim == 12
MaxTextLen == 14
\* calls of generateVisualSeed in one behaviour
MaxSeedCalls == 3

(***************************************************************************)
(* JavaScript values.                                                      *)
(***************************************************************************)
Str(s)    == [kind |-> "str",   val |-> s,    msg |-> ""]
Null      == [kind |-> "null",  val |-> <<>>, msg |-> ""]
Throw(m)  == [kind |-> "throw", val |-> <<>>, msg |-> m]
\* JavaScript falsiness of a string-or-null value: null and "" are falsy
Falsy(v)  == v.kind = "null" \/ (v.kind = "str" /\ v.val = <<>>)

Resolved(s) == [state |-> "resolved", value |-> s,    error |-> ""]
Rejected(m) == [state |-> "rejected", value |-> <<>>, error |-> m]
Pending     == [state |-> "none",     value |-> <<>>, error |-> ""]

Min(a, b) == IF a <= b THEN a ELSE b
Max(a, b) == IF a >= b THEN a ELSE b

\* largest integer the checker represents; a parsed header saturates here
\* (every comparison made with a parsed header is against a carrier length
\* far below it, so the saturation changes no outcome)
IntMax == (1073741823 * 2) + 1

(***************************************************************************)
(* Number <-> binary text (Number.prototype.toString(2), padStart,         *)
(* parseInt(_, 2)).                                                        *)
(***************************************************************************)
RECURSIVE ToBinary(_)
\* n.toString(2) for n >= 0: most significant bit first, no leading zeros
ToBinary(n) == IF n < 2 THEN <<n>> ELSE Append(ToBinary(n \div 2), n % 2)

\* s.padStart(w, '0'): pads on the left up to w, never truncates
PadStart(s, w) == IF Len(s) >= w THEN s
                  ELSE [i \in 1..(w - Len(s)) |-> 0] \o s

RECURSIVE ParseBinary(_)
\* parseInt(bits, 2) of a non-empty bit string, saturating at IntMax
ParseBinary(b) ==
    IF Len(b) = 0 THEN 0
    ELSE LET hi == ParseBinary(SubSeq(b, 1, Len(b) - 1))
             lo == b[Len(b)]
         IN IF hi > (IntMax - lo) \div 2 THEN IntMax ELSE 2 * hi + lo

(***************************************************************************)
(* stringToBinary / binaryToString                                         *)
(***************************************************************************)
RECURSIVE stringToBinary(_)
stringToBinary(str) ==
    IF Len(str) = 0 THEN <<>>
    ELSE PadStart(ToBinary(Head(str)), 8) \o stringToBinary(Tail(str))

\* a conversion that skips a zero group and goes on
RECURSIVE binaryToString_SkipZero(_)
binaryToString_SkipZero(binary) ==
    IF Len(binary) < 8 THEN <<>>
    ELSE LET charCode == ParseBinary(SubSeq(binary, 1, 8))
         IN (IF charCode = 0 THEN <<>> ELSE <<charCode>>)
                \o binaryToString_SkipZero(SubSeq(binary, 9, Len(binary)))

RECURSIVE binaryToString(_)
binaryToString(binary) ==
    IF Len(binary) < 8 THEN <<>>
    ELSE LET charCode == ParseBinary(SubSeq(binary, 1, 8))
         IN IF charCode = 0 THEN <<>>
            ELSE <<charCode>> \o binaryToString(SubSeq(binary, 9, Len(binary)))

(***************************************************************************)
(* CryptoJS.AES behind encryptText / decryptText.  The library is not part *)
(* of the repository; it is modelled by a keyed character substitution,    *)
(* which keeps what the codec relies on: the ciphertext is non-empty       *)
(* printable text without NUL, decrypting with the key that encrypted      *)
(* gives the text back, decrypting with another key gives other text, and  *)
(* text that is no ciphertext fails to decode.                             *)
(***************************************************************************)
RECURSIVE SumCodes(_)
SumCodes(s) == IF Len(s) = 0 THEN 0 ELSE Head(s) + SumCodes(Tail(s))

Printable(c) == c >= 32 /\ c <= 126
Key(password) == SumCodes(password) % 95
Sub(c, k)   == 32 + ((c - 32 + k) % 95)
Unsub(c, k) == 32 + ((c - 32 - k) % 95)

\* CryptoJS.AES.encrypt(text, password).toString()
AESEncrypt(text, password) ==
    [i \in 1..Len(text) |-> Sub(text[i], Key(password))]

\* CryptoJS.AES.decrypt(ct, password).toString(CryptoJS.enc.Utf8): the text,
\* or a throw ('Malformed UTF-8 data') when the input is no ciphertext
AESDecrypt(ct, password) ==
    IF \E i \in 1..Len(ct) : ~Printable(ct[i])
    THEN Throw("Malformed UTF-8 data")
    ELSE Str([i \in 1..Len(ct) |-> Unsub(ct[i], Key(password))])

\* 'NEBULA::' and '::NEBULA'
MARKER_PREFIX == <<78, 69, 66, 85, 76, 65, 58, 58>>
MARKER_SUFFIX == <<58, 58, 78, 69, 66, 85, 76, 65>>

StartsWith(s, p) == Len(s) >= Len(p) /\ SubSeq(s, 1, Len(p)) = p
EndsWith(s, p)   == Len(s) >= Len(p) /\ SubSeq(s, Len(s) - Len(p) + 1, Len(s)) = p

\* encryptText that tests the plaintext only
encryptText_NoPasswordCheck(plainText, password) ==
    IF plainText = <<>>
    THEN Throw("Both plainText and password are required")
    ELSE Str(AESEncrypt(MARKER_PREFIX \o plainText \o MARKER_SUFFIX, password))

encryptText(plainText, password) ==
    IF plainText = <<>> \/ password = <<>>
    THEN Throw("Both plainText and password are required")
    ELSE Str(AESEncrypt(MARKER_PREFIX \o plainText \o MARKER_SUFFIX, password))

\* decryptText without the marker test: returns whatever decrypts
decryptText_NoMarkerCheck(encryptedText, password) ==
    IF encryptedText = <<>> \/ password = <<>>
    THEN Throw("Both encryptedText and password are required")
    ELSE LET d == AESDecrypt(encryptedText, password)
         IN IF d.kind = "throw" THEN Null ELSE d

decryptText(encryptedText, password) ==
    IF encryptedText = <<>> \/ password = <<>>
    THEN Throw("Both encryptedText and password are required")
    ELSE LET d == AESDecrypt(encryptedText, password)
         IN IF d.kind = "throw" THEN Null
            ELSE IF StartsWith(d.val, MARKER_PREFIX) /\ EndsWith(d.val, MARKER_SUFFIX)
                 \* decrypted.slice(8, -8)
                 THEN Str(SubSeq(d.val, 9, Len(d.val) - 8))
                 ELSE Null

(***************************************************************************)
(* Framing                                                                 *)
(***************************************************************************)
END_DELIMITER == <<1,1,1,1,1,1,1,1,1,1,1,1,1,1,1,0>>

\* a frame without the delimiter
prepareDataForEmbedding_NoDelimiter(encryptedText) ==
    LET binary == stringToBinary(encryptedText)
        lengthBinary == PadStart(ToBinary(Len(binary)), 32)
    IN lengthBinary \o binary

prepareDataForEmbedding(encryptedText) ==
    LET binary == stringToBinary(encryptedText)
        lengthBinary == PadStart(ToBinary(Len(binary)), 32)
    IN lengthBinary \o binary \o END_DELIMITER

\* binary.slice(a, b) with 0-based a and b; b < a gives the empty string
Slice(binary, a, b) == SubSeq(binary, a + 1, Min(b, Len(binary)))

\* the length validation of extractDataFromBinary: true when the header is
\* accepted
extractLengthOk(dataLength, binaryLength) ==
    ~(dataLength <= 0 \/ dataLength > binaryLength - 32)

\* an extraction that also requires the delimiter behind the payload
extractDataFromBinary_NeedsDelimiter(binary) ==
    IF Len(binary) = 0 THEN Str(<<>>)
    ELSE LET dataLength == ParseBinary(Slice(binary, 0, 32))
         IN IF ~extractLengthOk(dataLength, Len(binary)) THEN Null
            ELSE IF Slice(binary, 32 + dataLength, 48 + dataLength) # END_DELIMITER
                 THEN Null
                 ELSE Str(binaryToString(Slice(binary, 32, 32 + dataLength)))

extractDataFromBinary(binary) ==
    IF Len(binary) = 0
    \* parseInt('') is NaN: both comparisons are false, slice(32, NaN) is ''
    THEN Str(<<>>)
    ELSE LET dataLength == ParseBinary(Slice(binary, 0, 32))
         IN IF ~extractLengthOk(dataLength, Len(binary))
            THEN Null
            ELSE Str(binaryToString(Slice(binary, 32, 32 + dataLength)))

(***************************************************************************)
(* Capacity                                                                *)
(***************************************************************************)
calculateImageCapacity(width, height) ==
    LET totalBits == width * height
        usableBits == totalBits - 48
        maxChars == usableBits \div 8
    IN Max(0, maxChars)

canFitInImage(encryptedText, width, height) ==
    Len(encryptedText) <= calculateImageCapacity(width, height)

(***************************************************************************)
(* Carriers.  An image carrier is the RGBA byte buffer of a width x height *)
(* canvas (data has 4 * width * height bytes, len = width * height).  An   *)
(* audio carrier is a mono Int16 sample buffer of len samples; data holds  *)
(* its first Min(len, AudioWindow) samples, the samples behind the window  *)
(* are not represented (the encode and decode steps of the model are      *)
(* guarded so that they never index behind it).                           *)
(***************************************************************************)
ImageCarrier(w, h, bytes) ==
    [medium |-> "image", width |-> w, height |-> h, len |-> w * h, data |-> bytes]
AudioCarrier(n, head) ==
    [medium |-> "audio", width |-> 0, height |-> 0, len |-> n, data |-> head]

\* v & 1 of a byte or of a signed 16-bit sample (two's complement)
LSB(v) == v % 2

(***************************************************************************)
(* useImageStego: encode / decode                                          *)
(***************************************************************************)
\* a capacity test that takes the 48 reserved bits off the carrier again
imageCapacityOk_Reserve48(frameLength, maxBits) == ~(frameLength > maxBits - 48)

\* the capacity test of encode: true when the frame is accepted
imageCapacityOk(frameLength, maxBits) == ~(frameLength > maxBits)

\* pixels[blueIndex] = (pixels[blueIndex] & 0xFE) | bit on a Uint8ClampedArray
\* a write that sets the low bit but never clears it: v | bit
setByteLSB_OrOnly(v, bit) == IF v % 2 = 1 THEN v ELSE v + bit

setByteLSB(v, bit) == ((v \div 2) * 2) + bit

\* 0-based index of the byte that carries bit i: pixelIndex = i * 4,
\* blueIndex = pixelIndex + 2
blueIndexOf(i) == (i * 4) + 2

\* the same with offset 1: the green byte of the pixel
iterationOfByte_Green(b) == IF b % 4 = 1 THEN (b - 1) \div 4 ELSE -1

\* the iteration i with blueIndexOf(i) = b, or -1 when byte b is no blue byte
iterationOfByte(b) == IF b % 4 = 2 THEN (b - 2) \div 4 ELSE -1

\* for (let i = 0; i < binaryData.length; i++)
\*   if (blueIndex < pixels.length) pixels[blueIndex] = (pixels[blueIndex] & 0xFE) | bit
\* Iteration i writes byte blueIndexOf(i) only, so the buffer after the loop
\* is given byte by byte.
imageEmbedLoop(pixels, binaryData) ==
    [k \in 1..Len(pixels) |->
        LET i == iterationOfByte(k - 1)
        IN IF i >= 0 /\ i < Len(binaryData)
           THEN setByteLSB(pixels[k], binaryData[i + 1])
           ELSE pixels[k]]

\* an encode that runs the LSB loop and writes the canvas back before it
\* tests the capacity
imageEncode_EmbedFirst(canvas, secretText, password) ==
    LET enc == encryptText(secretText, password)
    IN IF enc.kind = "throw"
       THEN [promise |-> Rejected(enc.msg), canvas |-> canvas,
             pixels |-> canvas.data, frame |-> <<>>]
       ELSE LET binaryData == prepareDataForEmbedding(enc.val)
                maxBits == canvas.width * canvas.height
                embedded == imageEmbedLoop(canvas.data, binaryData)
            IN [promise |-> IF ~imageCapacityOk(Len(binaryData), maxBits)
                            THEN Rejected("Message too long") ELSE Pending,
                canvas |-> [canvas EXCEPT !.data = embedded],
                pixels |-> embedded, frame |-> binaryData]

\* encode up to the call of canvas.toBlob: whether the promise is already
\* rejected, the canvas, the local pixel buffer and the frame that was built.
\* "Message too long" stands for the capacity error, whose text goes on with
\* the maximum number of characters.
imageEncode(canvas, secretText, password) ==
    LET enc == encryptText(secretText, password)
    IN IF enc.kind = "throw"
       THEN [promise |-> Rejected(enc.msg), canvas |-> canvas,
             pixels |-> canvas.data, frame |-> <<>>]
       ELSE LET binaryData == prepareDataForEmbedding(enc.val)
                \* ctx.getImageData(0, 0, canvas.width, canvas.height).data
                pixels == canvas.data
                maxBits == canvas.width * canvas.height
            IN IF ~imageCapacityOk(Len(binaryData), maxBits)
               THEN [promise |-> Rejected("Message too long"), canvas |-> canvas,
                     pixels |-> pixels, frame |-> binaryData]
               ELSE LET embedded == imageEmbedLoop(pixels, binaryData)
                    IN [promise |-> Pending,
                        \* ctx.putImageData(imageData, 0, 0)
                        canvas |-> [canvas EXCEPT !.data = embedded],
                        pixels |-> embedded, frame |-> binaryData]

\* the callback of canvas.toBlob
toBlobCallback(blobOk) ==
    IF blobOk THEN Resolved(<<>>) ELSE Rejected("Failed to create image blob")

\* the extraction loop of decode: the LSB of every pixel's blue byte
imageExtractLoop(canvas) ==
    LET maxBits == canvas.width * canvas.height
    IN [i \in 1..maxBits |-> LSB(canvas.data[blueIndexOf(i - 1) + 1])]

\* a decode without the try / catch around the body of img.onload: an
\* exception thrown there escapes and the promise never settles
imageDecode_NoCatch(canvas, password) ==
    LET binaryData == imageExtractLoop(canvas)
        encryptedText == extractDataFromBinary(binaryData)
        promise ==
          IF Falsy(encryptedText)
          THEN Rejected("No hidden data found in this image")
          ELSE LET decryptedText == decryptText(encryptedText.val, password)
               IN IF decryptedText.kind = "throw" THEN Pending
                  ELSE IF Falsy(decryptedText)
                       THEN Rejected("Invalid password or corrupted data")
                       ELSE Resolved(decryptedText.val)
    IN [promise |-> promise, unframed |-> encryptedText]

\* decode once the image has loaded: the promise, and what unframing gave
\* (encryptedText)
imageDecode(canvas, password) ==
    LET binaryData == imageExtractLoop(canvas)
        encryptedText == extractDataFromBinary(binaryData)
        promise ==
          IF Falsy(encryptedText)
          THEN Rejected("No hidden data found in this image")
          ELSE LET decryptedText == decryptText(encryptedText.val, password)
               IN IF decryptedText.kind = "throw" THEN Rejected(decryptedText.msg)
                  ELSE IF Falsy(decryptedText)
                       THEN Rejected("Invalid password or corrupted data")
                       ELSE Resolved(decryptedText.val)
    IN [promise |-> promise, unframed |-> encryptedText]

(***************************************************************************)
(* useAudioStego: encode / decode                                          *)
(***************************************************************************)
SAMPLE_RATE == 44100
MAX_DATA_LENGTH == 1000000

CeilDiv(a, b) == (a + b - 1) \div b

\* a duration capped at 180 s instead of 120 s
audioDurationTenths_Cap180(frameLength, chars) ==
    LET minRequiredDuration == CeilDiv(frameLength, SAMPLE_RATE) + 5
        scaledDuration10 == 200 + chars
    IN Min(1800, Max(200, Max(10 * minRequiredDuration, scaledDuration10)))

\* the duration chosen by encode, in tenths of a second (scaledDuration is
\* 20 + chars / 10, so every duration is a whole number of tenths)
audioDurationTenths(frameLength, chars) ==
    LET minRequiredDuration == CeilDiv(frameLength, SAMPLE_RATE) + 5
        scaledDuration10 == 200 + chars
    IN Min(1200, Max(200, Max(10 * minRequiredDuration, scaledDuration10)))

\* numSamples = sampleRate * durationSeconds
numSamplesOf(durationTenths) == (SAMPLE_RATE \div 10) * durationTenths

\* the capacity test of encode: true when the frame is accepted
audioCapacityOk(frameLength, samplesLength) == ~(frameLength > samplesLength)

\* a length validation that keeps no room for the delimiter
audioLengthOk_Reserve32(dataLength, samplesLength) ==
    ~(dataLength <= 0 \/ dataLength > (samplesLength - 32)
      \/ dataLength > MAX_DATA_LENGTH)

\* the length validation of decode: true when the header is accepted
audioLengthOk(dataLength, samplesLength) ==
    ~(dataLength <= 0 \/ dataLength > (samplesLength - 48)
      \/ dataLength > MAX_DATA_LENGTH)

\* samples[i] = (s & 0xFFFE) | bit kept as a plain number, not wrapped to 16 bits
setSampleLSB_NoWrap(s, bit) == (((s % 65536) \div 2) * 2) + bit

\* samples[i] = (samples[i] & 0xFFFE) | bit on an Int16Array: the value
\* 0..65535 of the right-hand side is stored modulo 2^16 as a signed sample
setSampleLSB(s, bit) ==
    LET v == (((s % 65536) \div 2) * 2) + bit
    IN IF v >= 32768 THEN v - 65536 ELSE v

\* for (let i = 0; i < fullBinary.length; i++)
\*   samples[i] = (samples[i] & 0xFFFE) | bit
\* Iteration i writes sample i only (a write behind the end of a typed array
\* is ignored), so the buffer after the loop is given sample by sample.
audioEmbedLoop(samples, fullBinary) ==
    [k \in 1..Len(samples) |->
        IF k - 1 < Len(fullBinary)
        THEN setSampleLSB(samples[k], fullBinary[k])
        ELSE samples[k]]

\* the frame built inline by the audio encode
audioFullBinary(encryptedText) ==
    LET binaryMessage == stringToBinary(encryptedText)
        lengthBinary == PadStart(ToBinary(Len(binaryMessage)), 32)
    IN lengthBinary \o binaryMessage \o END_DELIMITER

\* generateSoundscape(secretText, duration): an Int16Array of numSamples
\* samples.  The synthesis is outside the codec; style selects one of a few
\* sample contents that cover the range of a signed 16-bit sample.
SampleOf(style, j) ==
    CASE style = "edge" -> <<0, -1, 32767, -32768, 1, -2>>[(j % 6) + 1]
      [] OTHER -> ((j * 7919 + 13) % 65536) - 32768

generateSoundscape(style, numSamples) ==
    AudioCarrier(numSamples,
                 [j \in 1..Min(numSamples, AudioWindow) |-> SampleOf(style, j - 1)])

audioEncode(style, secretText, password) ==
    LET enc == encryptText(secretText, password)
    IN IF enc.kind = "throw"
       THEN [promise |-> Rejected(enc.msg), generated |-> AudioCarrier(0, <<>>),
             samples |-> AudioCarrier(0, <<>>), frame |-> <<>>]
       ELSE LET fullBinary == audioFullBinary(enc.val)
                duration == audioDurationTenths(Len(fullBinary), Len(enc.val))
                generated == generateSoundscape(style, numSamplesOf(duration))
            IN IF ~audioCapacityOk(Len(fullBinary), generated.len)
               THEN [promise |-> Rejected("Message too long"), generated |-> generated,
                     samples |-> generated, frame |-> fullBinary]
               ELSE [promise |-> Resolved(<<>>), generated |-> generated,
                     samples |-> [generated EXCEPT
                                    !.data = audioEmbedLoop(@, fullBinary)],
                     frame |-> fullBinary]

\* LSBs of samples from .. to - 1 (0-based), stopping at the end of the buffer
audioExtractLoop(wav, from, to) ==
    [k \in 1..(Min(to, wav.len) - from) |-> LSB(wav.data[from + k])]

\* decode once the file has been read: the promise, and what unframing gave
\* (encryptedText; null when the decode stopped at the header)
audioDecode(wav, password) ==
    IF wav.len < 48
    THEN [promise |-> Rejected("Audio file too short to contain hidden data"),
          unframed |-> Null]
    ELSE LET dataLength == ParseBinary(audioExtractLoop(wav, 0, 32))
         IN IF ~audioLengthOk(dataLength, wav.len)
            THEN [promise |-> Rejected("No hidden data found or corrupted file"),
                  unframed |-> Null]
            ELSE LET messageBinary == audioExtractLoop(wav, 32, 32 + dataLength)
                     encryptedText == binaryToString(messageBinary)
                     promise ==
                       IF encryptedText = <<>>
                       THEN Rejected("Failed to extract hidden data")
                       ELSE LET decryptedText == decryptText(encryptedText, password)
                            IN IF decryptedText.kind = "throw"
                               THEN Rejected("Failed to read audio file. Make sure it's a valid NEBULA WAV file.")
                               ELSE IF Falsy(decryptedText)
                                    THEN Rejected("Invalid password or corrupted data")
                                    ELSE Resolved(decryptedText.val)
                 IN [promise |-> promise, unframed |-> Str(encryptedText)]

(***************************************************************************)
(* Inputs of the bit-level specification                                   *)
(***************************************************************************)
\* "", "h" and "hi"
Plaintexts == {<<>>, <<104>>, <<104, 105>>}
\* "", "pw12" and "wrong"
Passwords == {<<>>, <<112, 119, 49, 50>>, <<119, 114, 111, 110, 103>>}

ByteOf(style, j) ==
    CASE style = "black" -> 0
      [] style = "white" -> 255
      [] OTHER -> ((j \div 4) * 37 + j * 11) % 256
\* the canvas after generatePattern: the rendering is outside the codec
drawPattern(w, h, style) ==
    ImageCarrier(w, h, [j \in 1..(4 * w * h) |-> ByteOf(style, j - 1)])

\* header values written into carriers that no encode produced
CraftedLengths(n) == {x \in {1, 8, 16, n - 48, n - 47, n - 32, n - 31} : x > 0}

\* a carrier whose first 32 addressable LSBs spell the header value L
CraftImage(c, L) == [c EXCEPT !.data = imageEmbedLoop(@, PadStart(ToBinary(L), 32))]
CraftAudio(c, L) == [c EXCEPT !.data = audioEmbedLoop(@, PadStart(ToBinary(L), 32))]

\* canvases of 191, 192 and 231 pixels take the frames of "h" (184 bits) and
\* "hi" (192 bits) or just fail to; the others are too small for any frame
InitialImages ==
    {drawPattern(191, 1, "mixed"), drawPattern(8, 24, "white"),
     drawPattern(33, 7, "black")}
    \cup {drawPattern(d, d, st) : d \in {5, 7}, st \in {"black", "white", "mixed"}}
    \cup {CraftImage(drawPattern(7, 7, "mixed"), L) : L \in CraftedLengths(49)}
    \cup {CraftImage(drawPattern(8, 8, "mixed"), L) : L \in CraftedLengths(64)}

\* uploaded WAV files that no encode produced
InitialWavs ==
    {generateSoundscape(st, n) : st \in {"edge", "mixed"}, n \in {40, 47, 48, 64}}
    \cup {CraftAudio(generateSoundscape("mixed", 49), L) : L \in CraftedLengths(49)}
    \cup {CraftAudio(generateSoundscape("edge", 64), L) : L \in CraftedLengths(64)}

AudioStyles == {"edge", "mixed"}

NoMessage == [present |-> FALSE, text |-> <<>>, password |-> <<>>]
Message(t, p) == [present |-> TRUE, text |-> t, password |-> p]

(***************************************************************************)
(* State                                                                   *)
(***************************************************************************)
\* the file between encode and decode: one addressed element has its LSB
\* changed.  Position j of the frame lies in byte blueIndexOf(j) of an image
\* and in sample j of a WAV.
FlipLSB(v) == IF v % 2 = 0 THEN v + 1 ELSE v - 1
ElementOfPosition(medium, j) == IF medium = "image" THEN blueIndexOf(j) + 1 ELSE j + 1
FlipAt(c, j) == [c EXCEPT !.data[ElementOfPosition(c.medium, j)] = FlipLSB(@)]

\* the header of the carrier as its decoder reads it
carrierHeader(c) ==
    IF c.medium = "image"
    THEN ParseBinary(Slice(imageExtractLoop(c), 0, 32))
    ELSE ParseBinary(audioExtractLoop(c, 0, 32))

\* the header passes the validation of the carrier's decoder
carrierHeaderOk(c) ==
    IF c.medium = "image" THEN c.len >= 32 /\ extractLengthOk(carrierHeader(c), c.len)
    ELSE c.len >= 48 /\ audioLengthOk(carrierHeader(c), c.len)

\* positions changed: in the header (its first bit and the bits of weight 16,
\* 8, 4, 2 and 1), the first and the last bit of the payload, the first and
\* the last bit of the delimiter and the bit after it
FlipPositions(L) ==
    {0, 27, 28, 29, 30, 31, 32, 32 + L - 1, 32 + L, 32 + L + 15, 32 + L + 16}

VARIABLES
    carrier,       \* the canvas (image) or the WAV samples (audio) at hand
    hidden,        \* the message of the last encode that resolved into carrier
    op,            \* the last operation: "init", "encode" or "decode"
    args,          \* its arguments [text, password]
    result,        \* how its promise settled
    before,        \* encode: the sample buffer as acquired (getImageData /
                   \* generateSoundscape)
    after,         \* encode: the same buffer when the promise settled
    frame,         \* encode: the bit string it built (<<>> if none)
    unframed,      \* decode: the text it unframed, or null
    flipped,       \* frame position of the one LSB changed in the file since it
                   \* was produced, or -1
    lv,            \* state of the length-level specification
    ui             \* the page: the store useNebulaStore, the calls of
                   \* handleEncrypt / handleDecrypt and the browser's object URLs

vars ==
    <<carrier, hidden, op, args, result, before, after, frame, unframed, flipped, lv, ui>>

(***************************************************************************)
(* Length level.  A carrier of millions of samples and a message of        *)
(* hundreds of thousands of characters are followed by their lengths only: *)
(* the ciphertext length, the frame length, the carrier's addressable      *)
(* units and the header value, through the same capacity and validation    *)
(* operators as above.  lv also holds the applications of the capacity     *)
(* planner and of the other utilities (framing, bit conversion, encryptText *)
(* and decryptText, detectEmotion) to inputs of their own.                 *)
(* These operations keep no state between calls, so each                   *)
(* length-level behaviour applies one of them to one input (and decodes    *)
(* what an accepted encode produced).                                      *)
(***************************************************************************)
NoLen == [kind |-> "none"]
LenIdle == [kind |-> "idle"]
NoCarrier == [medium |-> "none", width |-> 0, height |-> 0, len |-> 0, data |-> <<>>]

\* encryptedText.length: ciphertexts of the bit level (17, 18), of CryptoJS
\* for short texts (44, 64), for 5000 characters (6720) and for 100000
\* characters (133400), and the lengths around the duration and capacity
\* thresholds of the audio encode
LenChars ==
    {1, 17, 18, 44, 64, 999, 1000, 1001, 6720, 124999, 125000, 125001, 133400,
     633931, 633932, 661493, 661494, 661495, 700000}

\* canvases: 512 x 512 and 1024 x 1024, and small ones around the frame of a
\* 44-character ciphertext (400 bits)
LenDims == {<<512, 512>>, <<1024, 1024>>, <<1100, 1100>>, <<399, 1>>, <<400, 1>>,
            <<401, 1>>, <<447, 1>>, <<448, 1>>, <<20, 20>>}

\* header values of carriers that no encode produced
LenHeaders == {0, 1, 8, 352, 999992, 1000000, 1000001, 1000008, 1048536, 1048544,
               1048545, 1209952, 1209968, 1209969, 5291952, 5291968, 5291969}
LenUnits == {40, 47, 48, 400, 1048576, 1210000, 5292000}

\* Len(prepareDataForEmbedding(c)) and Len(audioFullBinary(c)) for a
\* ciphertext of chars characters, each below code 256
frameLengthOf(chars) == 32 + (8 * chars) + 16

\* useImageStego.encode by lengths: writes is the number of LSB writes made
\* when the promise settles
imageEncodeLengths(chars, w, h) ==
    LET frameLength == frameLengthOf(chars)
        maxBits == w * h
        ok == imageCapacityOk(frameLength, maxBits)
    IN [kind |-> "encode", medium |-> "image", chars |-> chars,
        frameLength |-> frameLength, units |-> maxBits, duration |-> 0,
        accepted |-> ok, header |-> 8 * chars,
        writes |-> IF ok THEN frameLength ELSE 0]

\* useAudioStego.encode by lengths
audioEncodeLengths(chars) ==
    LET frameLength == frameLengthOf(chars)
        duration == audioDurationTenths(frameLength, chars)
        numSamples == numSamplesOf(duration)
        ok == audioCapacityOk(frameLength, numSamples)
    IN [kind |-> "encode", medium |-> "audio", chars |-> chars,
        frameLength |-> frameLength, units |-> numSamples, duration |-> duration,
        accepted |-> ok, header |-> 8 * chars,
        writes |-> IF ok THEN frameLength ELSE 0]

\* decode by lengths, on a carrier of units addressable units whose header
\* spells dataLength: where the decoder stops and how many payload bits it
\* hands to binaryToString
decodeLengths(medium, dataLength, units, produced) ==
    LET outcome ==
          IF medium = "image"
          THEN IF extractLengthOk(dataLength, units) THEN "payload" ELSE "bad_length"
          ELSE IF units < 48 THEN "too_short"
               ELSE IF audioLengthOk(dataLength, units) THEN "payload"
                    ELSE "bad_length"
    IN [kind |-> "decode", medium |-> medium, header |-> dataLength,
        units |-> units, produced |-> produced, outcome |-> outcome,
        bitsRead |-> IF outcome = "payload"
                     THEN Min(32 + dataLength, units) - 32 ELSE 0]

\* "A" repeated n times
TextOfLength(n) == [i \in 1..n |-> 65]

\* no page is mounted
NoUI == [mounted |-> FALSE]

Init ==
    /\ ui = NoUI
    /\ \/ carrier \in InitialImages \cup InitialWavs /\ lv = NoLen
       \/ carrier = NoCarrier /\ lv = LenIdle
    /\ hidden = NoMessage
    /\ op = "init"
    /\ args = [text |-> <<>>, password |-> <<>>]
    /\ result = Pending
    /\ before = <<>>
    /\ after = <<>>
    /\ frame = <<>>
    /\ unframed = Null
    /\ flipped = -1

\* useImageStego.encode(t, p, canvas) on the canvas at hand; the PNG it
\* resolves with holds the canvas exactly
EncodeImage(t, p) ==
    /\ carrier.medium = "image"
    \* an altered file is an upload for decode, never the target of an encode
    /\ flipped = -1
    /\ LET r == imageEncode(carrier, t, p)
       IN /\ carrier' = r.canvas
          /\ before' = carrier.data
          /\ after' = r.pixels
          /\ frame' = r.frame
          /\ \/ /\ r.promise.state = "rejected"
                /\ result' = r.promise
                /\ hidden' = hidden
             \/ /\ r.promise.state = "none"
                /\ \E blobOk \in BOOLEAN :
                      /\ result' = toBlobCallback(blobOk)
                      /\ hidden' = IF blobOk THEN Message(t, p) ELSE NoMessage
    /\ op' = "encode"
    /\ args' = [text |-> t, password |-> p]
    /\ unframed' = Null
    /\ flipped' = -1
    /\ UNCHANGED <<lv, ui>>

\* useImageStego.decode(file, p) on the image at hand
DecodeImage(p) ==
    /\ carrier.medium = "image"
    /\ LET r == imageDecode(carrier, p)
       IN result' = r.promise /\ unframed' = r.unframed
    /\ op' = "decode"
    /\ args' = [text |-> <<>>, password |-> p]
    /\ before' = <<>>
    /\ after' = <<>>
    /\ frame' = <<>>
    /\ UNCHANGED <<carrier, hidden, flipped, lv, ui>>

\* useAudioStego.encode(t, p); the WAV it resolves with holds the samples
\* exactly and becomes the file at hand
EncodeAudio(style, t, p) ==
    /\ carrier.medium = "audio"
    \* an altered file is an upload for decode, never the target of an encode
    /\ flipped = -1
    /\ LET r == audioEncode(style, t, p)
       IN /\ Len(r.frame) <= AudioWindow
          /\ carrier' = IF r.promise.state = "resolved" THEN r.samples ELSE carrier
          /\ result' = r.promise
          /\ before' = r.generated.data
          /\ after' = r.samples.data
          /\ frame' = r.frame
          /\ hidden' = IF r.promise.state = "resolved" THEN Message(t, p) ELSE hidden
    /\ op' = "encode"
    /\ args' = [text |-> t, password |-> p]
    /\ unframed' = Null
    /\ flipped' = -1
    /\ UNCHANGED <<lv, ui>>

\* useAudioStego.decode(file, p) on the WAV at hand
DecodeAudio(p) ==
    /\ carrier.medium = "audio"
    \* every sample the decode reads lies in the window
    /\ carrier.len > Len(carrier.data) =>
           LET L == ParseBinary(audioExtractLoop(carrier, 0, 32))
           IN IF audioLengthOk(L, carrier.len) THEN 32 + L <= Len(carrier.data)
              ELSE TRUE
    /\ LET r == audioDecode(carrier, p)
       IN result' = r.promise /\ unframed' = r.unframed
    /\ op' = "decode"
    /\ args' = [text |-> <<>>, password |-> p]
    /\ before' = <<>>
    /\ after' = <<>>
    /\ frame' = <<>>
    /\ UNCHANGED <<carrier, hidden, flipped, lv, ui>>

\* the file at hand is changed in one LSB before it is uploaded for decode
Tamper(j) ==
    /\ carrier.medium # "none"
    /\ op \in {"init", "encode"}
    /\ op = "encode" => result.state = "resolved"
    /\ flipped = -1
    /\ carrierHeaderOk(carrier)
    /\ j \in FlipPositions(carrierHeader(carrier))
    /\ j < (IF carrier.medium = "image" THEN carrier.len ELSE Len(carrier.data))
    /\ carrier' = FlipAt(carrier, j)
    /\ flipped' = j
    /\ op' = "tamper"
    /\ result' = Pending
    /\ before' = <<>>
    /\ after' = <<>>
    /\ frame' = <<>>
    /\ UNCHANGED <<hidden, args, unframed, lv, ui>>

bitVars ==
    <<carrier, hidden, op, args, result, before, after, frame, unframed, flipped, ui>>

LenEncodeImage(chars, w, h) ==
    /\ lv = LenIdle
    /\ lv' = imageEncodeLengths(chars, w, h)
    /\ UNCHANGED bitVars

LenEncodeAudio(chars) ==
    /\ lv = LenIdle
    /\ lv' = audioEncodeLengths(chars)
    /\ UNCHANGED bitVars

\* decode of the carrier an accepted encode produced
LenDecodeProduced ==
    /\ lv.kind = "encode"
    /\ lv.accepted
    /\ lv' = decodeLengths(lv.medium, lv.header, lv.units, TRUE)
    /\ UNCHANGED bitVars

\* decode of a carrier that no encode produced
LenDecodeForeign(medium, dataLength, units) ==
    /\ lv = LenIdle
    /\ lv' = decodeLengths(medium, dataLength, units, FALSE)
    /\ UNCHANGED bitVars

\* calculateImageCapacity(w, h) and canFitInImage(text, w, h)
PlanCapacity(n, w, h) ==
    /\ lv = LenIdle
    /\ lv' = [kind |-> "capacity", textLength |-> n, width |-> w, height |-> h,
              capacity |-> calculateImageCapacity(w, h),
              fits |-> canFitInImage(TextOfLength(n), w, h)]
    /\ UNCHANGED bitVars

\* ciphertext strings the framing is applied to: "", "A", "U2F=" and "/+9z"
FrameInputs == {<<>>, <<65>>, <<85, 50, 70, 61>>, <<47, 43, 57, 122>>}

\* prepareDataForEmbedding(c) and the inline framing of the audio encode
ApplyFrame(c) ==
    /\ lv = LenIdle
    /\ lv' = [kind |-> "frame", input |-> c,
              image |-> prepareDataForEmbedding(c), audio |-> audioFullBinary(c)]
    /\ UNCHANGED bitVars

\* strings of up to two characters; the codes are those of NUL, SOH, "A",
\* U+00FF, U+0100, U+03BB and U+FFFF
CharCodes == {0, 1, 65, 255, 256, 955, 65535}
ToBitsInputs == {<<>>} \cup {<<a>> : a \in CharCodes}
                   \cup {<<a, b>> : a \in CharCodes, b \in CharCodes}

\* stringToBinary(str)
ApplyToBits(str) ==
    /\ lv = LenIdle
    /\ lv' = [kind |-> "to_bits", input |-> str, output |-> stringToBinary(str)]
    /\ UNCHANGED bitVars

\* bit strings of up to three groups of 8 bits (0, 1, "A", 255) and a rest
\* of fewer than 8 bits
GroupBits == {<<0,0,0,0,0,0,0,0>>, <<0,0,0,0,0,0,0,1>>, <<0,1,0,0,0,0,0,1>>,
              <<1,1,1,1,1,1,1,1>>}
RestBits == {<<>>, <<1>>, <<0,0,0>>, <<1,1,1,1,1,1,1>>}
FromBitsInputs ==
    {r : r \in RestBits}
    \cup {a \o r : a \in GroupBits, r \in RestBits}
    \cup {a \o b \o r : a \in GroupBits, b \in GroupBits, r \in RestBits}
    \cup {a \o b \o c \o r : a \in GroupBits, b \in GroupBits, c \in GroupBits,
                               r \in RestBits}

\* binaryToString(binary)
ApplyFromBits(binary) ==
    /\ lv = LenIdle
    /\ lv' = [kind |-> "from_bits", input |-> binary, output |-> binaryToString(binary)]
    /\ UNCHANGED bitVars

\* ciphertext strings handed to decryptText: "", "abc", two characters that
\* are no text, and the ciphertexts of "h" under "pw12" and of "hi" under
\* "wrong"
DecryptInputs ==
    {<<>>, <<97, 98, 99>>, <<200, 7>>,
     encryptText(<<104>>, <<112, 119, 49, 50>>).val,
     encryptText(<<104, 105>>, <<119, 114, 111, 110, 103>>).val}

\* decryptText(ct, pw)
ApplyDecrypt(ct, pw) ==
    /\ lv = LenIdle
    /\ lv' = [kind |-> "decrypt", input |-> ct, password |-> pw,
              output |-> decryptText(ct, pw)]
    /\ UNCHANGED bitVars

\* encryptText(pt, pw)
ApplyEncrypt(pt, pw) ==
    /\ lv = LenIdle
    /\ lv' = [kind |-> "encrypt", input |-> pt, password |-> pw,
              output |-> encryptText(pt, pw)]
    /\ UNCHANGED bitVars

(***************************************************************************)
(* detectEmotion                                                           *)
(***************************************************************************)
WARM_WORDS == <<
    <<108, 111, 118, 101>>,   \* love
    <<104, 111, 112, 101>>,   \* hope
    <<108, 105, 103, 104, 116>>,   \* light
    <<115, 117, 110>>,   \* sun
    <<100, 114, 101, 97, 109>>,   \* dream
    <<104, 97, 112, 112, 121>>,   \* happy
    <<106, 111, 121>>,   \* joy
    <<115, 109, 105, 108, 101>>,   \* smile
    <<119, 97, 114, 109>>,   \* warm
    <<104, 101, 97, 114, 116>>,   \* heart
    <<98, 101, 97, 117, 116, 105, 102, 117, 108>>,   \* beautiful
    <<98, 114, 105, 103, 104, 116>>,   \* bright
    <<115, 104, 105, 110, 101>>,   \* shine
    <<103, 108, 111, 119>>,   \* glow
    <<107, 105, 110, 100>>,   \* kind
    <<102, 114, 105, 101, 110, 100>>,   \* friend
    <<112, 101, 97, 99, 101>>,   \* peace
    <<99, 97, 108, 109>>,   \* calm
    <<103, 101, 110, 116, 108, 101>>,   \* gentle
    <<115, 119, 101, 101, 116>>,   \* sweet
    <<116, 101, 110, 100, 101, 114>>,   \* tender
    <<101, 109, 98, 114, 97, 99, 101>>,   \* embrace
    <<115, 117, 110, 115, 104, 105, 110, 101>>,   \* sunshine
    <<103, 111, 108, 100, 101, 110>>,   \* golden
    <<98, 108, 101, 115, 115>>,   \* bless
    <<99, 104, 101, 114, 105, 115, 104>>,   \* cherish
    <<99, 111, 109, 102, 111, 114, 116>>,   \* comfort
    <<100, 101, 108, 105, 103, 104, 116>>,   \* delight
    <<102, 97, 105, 116, 104>>,   \* faith
    <<103, 114, 97, 99, 101>>,   \* grace
    <<104, 97, 114, 109, 111, 110, 121>>,   \* harmony
    <<105, 110, 115, 112, 105, 114, 101>>,   \* inspire
    <<108, 97, 117, 103, 104>>,   \* laugh
    <<109, 97, 103, 105, 99>>,   \* magic
    <<109, 105, 114, 97, 99, 108, 101>>,   \* miracle
    <<112, 97, 115, 115, 105, 111, 110>>,   \* passion
    <<114, 97, 100, 105, 97, 110, 116>>,   \* radiant
    <<115, 101, 114, 101, 110, 101>>,   \* serene
    <<116, 104, 97, 110, 107, 102, 117, 108>>,   \* thankful
    <<116, 114, 101, 97, 115, 117, 114, 101>>,   \* treasure
    <<119, 111, 110, 100, 101, 114>>,   \* wonder
    <<102, 97, 109, 105, 108, 121>>,   \* family
    <<107, 105, 115, 115>>,   \* kiss
    <<104, 117, 103>>,   \* hug
    <<119, 101, 100, 100, 105, 110, 103>>,   \* wedding
    <<98, 97, 98, 121>>,   \* baby
    <<115, 112, 114, 105, 110, 103>>,   \* spring
    <<115, 117, 109, 109, 101, 114>>,   \* summer
    <<102, 108, 111, 119, 101, 114>>,   \* flower
    <<98, 108, 111, 111, 109>>,   \* bloom
    <<115, 117, 110, 114, 105, 115, 101>>,   \* sunrise
    <<109, 111, 114, 110, 105, 110, 103>>,   \* morning
    <<112, 97, 114, 97, 100, 105, 115, 101>>,   \* paradise
    <<97, 110, 103, 101, 108>>    \* angel
>>

COLD_WORDS == <<
    <<115, 97, 100>>,   \* sad
    <<100, 97, 114, 107>>,   \* dark
    <<110, 105, 103, 104, 116>>,   \* night
    <<97, 108, 111, 110, 101>>,   \* alone
    <<99, 111, 108, 100>>,   \* cold
    <<112, 97, 105, 110>>,   \* pain
    <<102, 101, 97, 114>>,   \* fear
    <<99, 114, 121>>,   \* cry
    <<108, 111, 115, 116>>,   \* lost
    <<115, 104, 97, 100, 111, 119>>,   \* shadow
    <<100, 101, 97, 116, 104>>,   \* death
    <<104, 97, 116, 101>>,   \* hate
    <<97, 110, 103, 101, 114>>,   \* anger
    <<115, 116, 111, 114, 109>>,   \* storm
    <<116, 104, 117, 110, 100, 101, 114>>,   \* thunder
    <<114, 97, 105, 110>>,   \* rain
    <<116, 101, 97, 114, 115>>,   \* tears
    <<98, 114, 111, 107, 101, 110>>,   \* broken
    <<108, 111, 110, 101, 108, 121>>,   \* lonely
    <<101, 109, 112, 116, 121>>,   \* empty
    <<115, 111, 114, 114, 111, 119>>,   \* sorrow
    <<103, 114, 105, 101, 102>>,   \* grief
    <<100, 101, 115, 112, 97, 105, 114>>,   \* despair
    <<97, 103, 111, 110, 121>>,   \* agony
    <<98, 105, 116, 116, 101, 114>>,   \* bitter
    <<98, 108, 101, 97, 107>>,   \* bleak
    <<100, 111, 111, 109>>,   \* doom
    <<100, 114, 101, 97, 100>>,   \* dread
    <<102, 97, 100, 101>>,   \* fade
    <<102, 97, 108, 108>>,   \* fall
    <<102, 114, 111, 122, 101, 110>>,   \* frozen
    <<103, 114, 97, 118, 101>>,   \* grave
    <<104, 97, 117, 110, 116>>,   \* haunt
    <<104, 117, 114, 116>>,   \* hurt
    <<105, 99, 101>>,   \* ice
    <<109, 101, 108, 97, 110, 99, 104, 111, 108, 121>>,   \* melancholy
    <<109, 111, 117, 114, 110>>,   \* mourn
    <<110, 105, 103, 104, 116, 109, 97, 114, 101>>,   \* nightmare
    <<111, 98, 115, 99, 117, 114, 101>>,   \* obscure
    <<112, 97, 108, 101>>,   \* pale
    <<112, 104, 97, 110, 116, 111, 109>>,   \* phantom
    <<114, 117, 105, 110>>,   \* ruin
    <<115, 105, 108, 101, 110, 116>>,   \* silent
    <<115, 117, 102, 102, 101, 114>>,   \* suffer
    <<116, 114, 97, 103, 105, 99>>,   \* tragic
    <<118, 111, 105, 100>>,   \* void
    <<119, 101, 101, 112>>,   \* weep
    <<119, 105, 116, 104, 101, 114>>,   \* wither
    <<119, 111, 117, 110, 100>>,   \* wound
    <<119, 105, 110, 116, 101, 114>>,   \* winter
    <<109, 105, 100, 110, 105, 103, 104, 116>>,   \* midnight
    <<102, 111, 103>>,   \* fog
    <<109, 105, 115, 116>>,   \* mist
    <<103, 104, 111, 115, 116>>,   \* ghost
    <<115, 99, 114, 101, 97, 109>>,   \* scream
    <<98, 108, 97, 99, 107>>,   \* black
    <<103, 114, 101, 121>>    \* grey
>>

\* text.toLowerCase() on the letters A..Z
ToLowerCase(text) ==
    [i \in 1..Len(text) |-> IF text[i] >= 65 /\ text[i] <= 90 THEN text[i] + 32 ELSE text[i]]

\* lowerText.includes(word)
Includes(text, word) ==
    \E i \in 1..(Len(text) - Len(word) + 1) : SubSeq(text, i, i + Len(word) - 1) = word

\* the score after the loop over a word list: one for each word included
ScoreOf(words, lowerText) ==
    Cardinality({i \in 1..Len(words) : Includes(lowerText, words[i])})

\* detectEmotion that matches the text as it is written
detectEmotion_CaseSensitive(text) ==
    LET warmScore == ScoreOf(WARM_WORDS, text)
        coldScore == ScoreOf(COLD_WORDS, text)
    IN IF warmScore > coldScore /\ warmScore > 0 THEN "warm"
       ELSE IF coldScore > warmScore /\ coldScore > 0 THEN "cold"
            ELSE "neutral"

detectEmotion(text) ==
    LET lowerText == ToLowerCase(text)
        warmScore == ScoreOf(WARM_WORDS, lowerText)
        coldScore == ScoreOf(COLD_WORDS, lowerText)
    IN IF warmScore > coldScore /\ warmScore > 0 THEN "warm"
       ELSE IF coldScore > warmScore /\ coldScore > 0 THEN "cold"
            ELSE "neutral"

\* texts: nothing, one word, or two words with a blank between them; the
\* words are love, HOPE, sad, Dark, sunshine, nightmare, xyz, Joy
EmotionTokens == {<<108, 111, 118, 101>>,
                  <<72, 79, 80, 69>>,
                  <<115, 97, 100>>,
                  <<68, 97, 114, 107>>,
                  <<115, 117, 110, 115, 104, 105, 110, 101>>,
                  <<110, 105, 103, 104, 116, 109, 97, 114, 101>>,
                  <<120, 121, 122>>,
                  <<74, 111, 121>>}
EmotionTexts ==
    {<<>>} \cup EmotionTokens
           \cup {a \o <<32>> \o b : a \in EmotionTokens, b \in EmotionTokens}

\* detectEmotion(text)
ApplyDetectEmotion(text) ==
    /\ lv = LenIdle
    /\ lv' = [kind |-> "emotion", input |-> text, output |-> detectEmotion(text)]
    /\ UNCHANGED bitVars

(***************************************************************************)
(* generateVisualSeed.  CryptoJS.SHA256 is not part of the repository; it   *)
(* is modelled by a digest of the text alone, of which the first 8 hex      *)
(* digits are kept.  The seed parseInt(hexStr, 16) has up to 32 bits and is *)
(* kept as its two 16-bit halves.                                           *)
(***************************************************************************)
\* CryptoJS.SHA256(str).toString().slice(0, 8), as digit values
SHA256Hex8(str) ==
    [k \in 1..8 |-> ((SumCodes(str) * (k + 6)) + (Len(str) * k * k) + (11 * k)) % 16]

\* parseInt(digits, 16)
RECURSIVE ParseHex(_)
ParseHex(d) ==
    IF Len(d) = 0 THEN 0 ELSE (16 * ParseHex(SubSeq(d, 1, Len(d) - 1))) + d[Len(d)]

\* a seed that also depends on the calls made before
generateVisualSeed_CallCount(str) ==
    LET hexStr == SHA256Hex8(str)
        calls == IF lv.kind = "seed" THEN Len(lv.log) ELSE 0
    IN [hi |-> ParseHex(SubSeq(hexStr, 1, 4)),
        lo |-> (ParseHex(SubSeq(hexStr, 5, 8)) + calls) % 65536]

generateVisualSeed(str) ==
    LET hexStr == SHA256Hex8(str)
    IN [hi |-> ParseHex(SubSeq(hexStr, 1, 4)), lo |-> ParseHex(SubSeq(hexStr, 5, 8))]

\* generateVisualSeed(text), after up to MaxSeedCalls - 1 earlier calls
CallSeed(text) ==
    /\ lv = LenIdle \/ (lv.kind = "seed" /\ Len(lv.log) < MaxSeedCalls)
    /\ lv' = [kind |-> "seed",
              log |-> (IF lv.kind = "seed" THEN lv.log ELSE <<>>)
                         \o <<[text |-> text, seed |-> generateVisualSeed(text)]>>]
    /\ UNCHANGED bitVars

\* decode of carrier c as its decoder runs it
DecodeOf(c, password) ==
    IF c.medium = "image" THEN imageDecode(c, password) ELSE audioDecode(c, password)

Next ==
    \/ \E t \in Plaintexts, p \in Passwords : EncodeImage(t, p)
    \/ \E p \in Passwords : DecodeImage(p)
    \/ \E st \in AudioStyles, t \in Plaintexts, p \in Passwords : EncodeAudio(st, t, p)
    \/ \E p \in Passwords : DecodeAudio(p)
    \/ \E j \in 0..(AudioWindow + 16) : Tamper(j)
    \/ \E c \in LenChars, d \in LenDims : LenEncodeImage(c, d[1], d[2])
    \/ \E c \in LenChars : LenEncodeAudio(c)
    \/ LenDecodeProduced
    \/ \E m \in {"image", "audio"}, L \in LenHeaders, n \in LenUnits :
          LenDecodeForeign(m, L, n)
    \/ \E n \in 0..MaxTextLen, w \in 0..MaxDim, h \in 0..MaxDim : PlanCapacity(n, w, h)
    \/ \E c \in FrameInputs : ApplyFrame(c)
    \/ \E str \in ToBitsInputs : ApplyToBits(str)
    \/ \E b \in FromBitsInputs : ApplyFromBits(b)
    \/ \E ct \in DecryptInputs, pw \in Passwords : ApplyDecrypt(ct, pw)
    \/ \E pt \in Plaintexts, pw \in Passwords : ApplyEncrypt(pt, pw)
    \/ \E text \in EmotionTexts : ApplyDetectEmotion(text)
    \/ \E text \in Plaintexts : CallSeed(text)

Spec == Init /\ [][Next]_vars

(***************************************************************************)
(* The page: the store useNebulaStore and the handlers of the page         *)
(* component.  A text of the textarea is kept by its lengths: lead         *)
(* whitespace characters followed by body characters that start and end    *)
(* with a non-blank one.  A file is kept by what the validation reads of   *)
(* it and by what it holds.  null is 0 for generatedOutput and outputURL,  *)
(* which are otherwise the number of the call that made them.              *)
(***************************************************************************)
TextOf(lead, body) == [lead |-> lead, body |-> body]
\* secretText.trim(): leading whitespace removed
Trim(t) == TextOf(0, t.body)
\* secretText.length
LengthOf(t) == t.lead + t.body

NullFile ==
    [present |-> FALSE, isImage |-> FALSE, isAudio |-> FALSE, wavName |-> FALSE,
     holds |-> "none"]
\* a file: type.startsWith('image/'), type.includes('audio/'),
\* name.endsWith('.wav'), and whether a NEBULA encode produced it
FileOf(isImage, isAudio, wavName, holds) ==
    [present |-> TRUE, isImage |-> isImage, isAudio |-> isAudio, wavName |-> wavName,
     holds |-> holds]

\* most calls of handleEncrypt / handleDecrypt pending at one time
MaxCalls == 2
\* most object URLs of outputs that exist unrevoked at one time
MaxLive == 2

FreeCall ==
    [kind |-> "", medium |-> "", text |-> TextOf(0, 0), password |-> <<>>,
     file |-> NullFile]
NoCalls == [i \in 1..MaxCalls |-> FreeCall]

\* the initial state of the store, with no call made and no object URL
StoreInit ==
    [mounted |-> TRUE,
     mode |-> "encrypt",
     medium |-> "image",
     secretText |-> TextOf(0, 0),
     password |-> <<>>,
     confirmPassword |-> <<>>,
     uploadedFile |-> NullFile,
     generatedOutput |-> 0,
     outputURL |-> 0,
     processState |-> "idle",
     errorMessage |-> "",
     revealedSecret |-> <<>>,
     showSuccess |-> FALSE,
     \* the browser: object URLs of outputs created and not revoked
     live |-> {},
     \* the pending calls of handleEncrypt / handleDecrypt, with the values
     \* of their closures
     calls |-> NoCalls,
     \* the target of a mode switch whose tween has not completed, or ""
     switching |-> "",
     \* "setMode" when the last step was a call of setMode
     last |-> ""]

\* if (currentURL) URL.revokeObjectURL(currentURL)
revokeCurrent(u) == IF u.outputURL # 0 THEN u.live \ {u.outputURL} ELSE u.live

\* a setMode that keeps the revealed secret
setMode_KeepRevealed(u, mode) ==
    [u EXCEPT !.live = revokeCurrent(u),
              !.mode = mode,
              !.secretText = TextOf(0, 0),
              !.password = <<>>,
              !.confirmPassword = <<>>,
              !.uploadedFile = NullFile,
              !.generatedOutput = 0,
              !.outputURL = 0,
              !.processState = "idle",
              !.errorMessage = "",
              !.showSuccess = FALSE]

setMode(u, mode) ==
    [u EXCEPT !.live = revokeCurrent(u),
              !.mode = mode,
              !.secretText = TextOf(0, 0),
              !.password = <<>>,
              !.confirmPassword = <<>>,
              !.uploadedFile = NullFile,
              !.generatedOutput = 0,
              !.outputURL = 0,
              !.processState = "idle",
              !.errorMessage = "",
              !.revealedSecret = <<>>,
              !.showSuccess = FALSE]

setMedium(u, medium) == [u EXCEPT !.medium = medium]

setSecretText(u, secretText) == [u EXCEPT !.secretText = secretText]

setPassword(u, password) == [u EXCEPT !.password = password]

setConfirmPassword(u, confirmPassword) == [u EXCEPT !.confirmPassword = confirmPassword]

setUploadedFile(u, uploadedFile) ==
    [u EXCEPT !.uploadedFile = uploadedFile,
              !.processState = "idle",
              !.errorMessage = "",
              !.revealedSecret = <<>>]

setProcessing(u) ==
    [u EXCEPT !.processState = "processing",
              !.errorMessage = "",
              !.showSuccess = FALSE]

setSuccess(u, output, url) ==
    [u EXCEPT !.processState = "success",
              !.generatedOutput = output,
              !.outputURL = url,
              !.errorMessage = "",
              !.showSuccess = TRUE]

setError(u, message) ==
    [u EXCEPT !.processState = "error",
              !.errorMessage = message,
              !.showSuccess = FALSE]

setRevealedSecret(u, secret) ==
    [u EXCEPT !.revealedSecret = secret,
              !.processState = "success",
              !.showSuccess = TRUE]

MAX_SECRET_LENGTH == 5000
MIN_PASSWORD_LENGTH == 4

\* a validation that does not compare the two passwords
validateEncryptForm_NoConfirm(u) ==
    IF LengthOf(Trim(u.secretText)) = 0
    THEN [valid |-> FALSE, error |-> "Please enter a secret message"]
    ELSE IF LengthOf(u.secretText) > MAX_SECRET_LENGTH
    THEN [valid |-> FALSE, error |-> "Secret message is too long (max 5000 characters)"]
    ELSE IF u.password = <<>>
    THEN [valid |-> FALSE, error |-> "Please enter a password"]
    ELSE IF Len(u.password) < MIN_PASSWORD_LENGTH
    THEN [valid |-> FALSE, error |-> "Password must be at least 4 characters"]
    ELSE [valid |-> TRUE, error |-> ""]

validateEncryptForm(u) ==
    IF LengthOf(Trim(u.secretText)) = 0
    THEN [valid |-> FALSE, error |-> "Please enter a secret message"]
    ELSE IF LengthOf(u.secretText) > MAX_SECRET_LENGTH
    THEN [valid |-> FALSE, error |-> "Secret message is too long (max 5000 characters)"]
    ELSE IF u.password = <<>>
    THEN [valid |-> FALSE, error |-> "Please enter a password"]
    ELSE IF Len(u.password) < MIN_PASSWORD_LENGTH
    THEN [valid |-> FALSE, error |-> "Password must be at least 4 characters"]
    ELSE IF u.password # u.confirmPassword
    THEN [valid |-> FALSE, error |-> "Passwords do not match"]
    ELSE [valid |-> TRUE, error |-> ""]

validateDecryptForm(u) ==
    IF ~u.uploadedFile.present
    THEN [valid |-> FALSE, error |-> "Please upload a file"]
    ELSE IF u.medium = "image" /\ ~u.uploadedFile.isImage
    THEN [valid |-> FALSE, error |-> "Please upload an image file (PNG recommended)"]
    ELSE IF u.medium = "audio" /\ ~u.uploadedFile.isAudio /\ ~u.uploadedFile.wavName
    THEN [valid |-> FALSE, error |-> "Please upload a WAV audio file"]
    ELSE IF u.password = <<>>
    THEN [valid |-> FALSE, error |-> "Please enter the password"]
    ELSE [valid |-> TRUE, error |-> ""]

reset(u) ==
    [u EXCEPT !.live = revokeCurrent(u),
              !.secretText = TextOf(0, 0),
              !.password = <<>>,
              !.confirmPassword = <<>>,
              !.uploadedFile = NullFile,
              !.generatedOutput = 0,
              !.outputURL = 0,
              !.processState = "idle",
              !.errorMessage = "",
              !.revealedSecret = <<>>,
              !.showSuccess = FALSE]

\* the texts typed into the textarea: empty, blanks only, of 5000 characters
\* with a leading blank, and of 5001 characters
SecretTexts ==
    {TextOf(0, 0), TextOf(3, 0), TextOf(1, MAX_SECRET_LENGTH - 1),
     TextOf(0, MAX_SECRET_LENGTH + 1)}

\* the passwords typed: "", "abc" and "pw12"
UIPasswords == {<<>>, <<97, 98, 99>>, <<112, 119, 49, 50>>}

\* the uploads: a PNG and a WAV that NEBULA produced for "h" with "pw12", a
\* PNG that holds no frame, and a text file
SecretPng == imageEncode(drawPattern(8, 24, "white"), <<104>>, <<112, 119, 49, 50>>).canvas
SecretWav == audioEncode("mixed", <<104>>, <<112, 119, 49, 50>>).samples
PlainPng == drawPattern(8, 24, "white")
PlainWav == generateSoundscape("edge", 64)

UploadFiles ==
    {FileOf(TRUE, FALSE, FALSE, "secret"), FileOf(TRUE, FALSE, FALSE, "plain"),
     FileOf(FALSE, TRUE, TRUE, "secret"), FileOf(FALSE, FALSE, FALSE, "plain")}

\* what the FileReader and the Image hand to the decoder of the medium
FileCarrier(medium, holds) ==
    IF medium = "image"
    THEN IF holds = "secret" THEN SecretPng ELSE PlainPng
    ELSE IF holds = "secret" THEN SecretWav ELSE PlainWav

\* the promise of the decoder of the medium on each upload and password, once
\* the file was read
decoderPromise ==
    [medium \in {"image", "audio"}, holds \in {"secret", "plain"}, password \in UIPasswords |->
        DecodeOf(FileCarrier(medium, holds), password).promise]

\* CryptoJS.AES.encrypt(markedText, password).toString().length for a
\* plaintext of n single-byte characters: "Salted__", the salt and the padded
\* blocks of the marked text, in base 64
cryptoJsLength(n) == 4 * CeilDiv(16 + (16 * (((n + 16) \div 16) + 1)), 3)

CANVAS_SIZE == 512

\* how encodeImage(secretText, password, canvas) can settle
encodeImageSettlements(text, password) ==
    IF LengthOf(text) = 0 \/ password = <<>>
    THEN {Rejected("Both plainText and password are required")}
    ELSE IF ~imageEncodeLengths(cryptoJsLength(LengthOf(text)),
                                CANVAS_SIZE, CANVAS_SIZE).accepted
         THEN {Rejected("Message too long")}
         ELSE {toBlobCallback(blobOk) : blobOk \in BOOLEAN}

\* how encodeAudio(secretText, password) settles
encodeAudioSettlement(text, password) ==
    IF LengthOf(text) = 0 \/ password = <<>>
    THEN Rejected("Both plainText and password are required")
    ELSE IF ~audioEncodeLengths(cryptoJsLength(LengthOf(text))).accepted
         THEN Rejected("Message too long")
         ELSE Resolved(<<>>)

\* how decodeImage / decodeAudio (file, password) can settle: the decoder on
\* what was read, or the error event of the reader or of the image
decodeSettlements(medium, file, password) ==
    IF medium = "image"
    THEN {decoderPromise[medium, file.holds, password],
          Rejected("Failed to load image"), Rejected("Failed to read file")}
    ELSE {decoderPromise[medium, file.holds, password],
          Rejected("Failed to read audio file")}

\* error.message?.includes(...) of the catch of handleDecrypt
HasInvalidPassword(msg) == msg \in {"Invalid password or corrupted data"}
HasNoHiddenData(msg) ==
    msg \in {"No hidden data found in this image", "No hidden data found or corrupted file"}
HasCorrupted(msg) ==
    msg \in {"Invalid password or corrupted data", "No hidden data found or corrupted file"}

decryptErrorMessage(msg) ==
    IF HasInvalidPassword(msg) THEN "Wrong password. Please try again."
    ELSE IF HasNoHiddenData(msg) THEN "No hidden message found in this file."
    ELSE IF HasCorrupted(msg) THEN "Wrong password or the file is corrupted."
    ELSE "Decryption failed. Please check your password."

\* a call holds the values of its closure while it is pending
CallOf(kind, u) ==
    [kind |-> kind, medium |-> u.medium, text |-> u.secretText,
     password |-> u.password, file |-> u.uploadedFile]

PendingCalls(u) == {i \in 1..MaxCalls : u.calls[i].kind # ""}
FreeSlots(u) == {i \in 1..MaxCalls : u.calls[i].kind = ""}
FirstFree(u) == CHOOSE i \in FreeSlots(u) : \A j \in FreeSlots(u) : i <= j

\* URL.createObjectURL(blob): a URL that no live one equals
createObjectURL(u) ==
    CHOOSE n \in (1..MaxLive) \ u.live : \A m \in (1..MaxLive) \ u.live : n <= m

\* every encrypt that has started can still be given a URL
RoomForOutput(u) ==
    Cardinality(u.live) + Cardinality({i \in PendingCalls(u) : u.calls[i].kind = "encrypt"})
        < MaxLive

\* the code after "await encodeImage(...)" / "await encodeAudio(...)" of call
\* id, and the catch
encryptCompletion(u, promise) ==
    IF promise.state = "resolved"
    THEN \* const url = URL.createObjectURL(blob); setSuccess(blob, url)
         LET url == createObjectURL(u)
         IN setSuccess([u EXCEPT !.live = @ \cup {url}], url, url)
    ELSE setError(u, IF promise.error # "" THEN promise.error ELSE "Encryption failed")

\* a completion whose catch sets no error
decryptCompletion_SilentCatch(u, promise) ==
    IF promise.state = "resolved" /\ promise.value # <<>>
    THEN setRevealedSecret(u, promise.value)
    ELSE u

\* the code after "revealed = await decode...(uploadedFile, password)", and
\* the catch
decryptCompletion(u, promise) ==
    IF promise.state = "resolved" /\ promise.value # <<>>
    THEN setRevealedSecret(u, promise.value)
    ELSE setError(u, decryptErrorMessage(IF promise.state = "resolved"
                                         THEN "Failed to decrypt" ELSE promise.error))

hookVars ==
    <<carrier, hidden, op, args, result, before, after, frame, unframed, flipped, lv>>

UIInit ==
    /\ ui = StoreInit
    /\ carrier = NoCarrier
    /\ lv = NoLen
    /\ hidden = NoMessage
    /\ op = "init"
    /\ args = [text |-> <<>>, password |-> <<>>]
    /\ result = Pending
    /\ before = <<>>
    /\ after = <<>>
    /\ frame = <<>>
    /\ unframed = Null
    /\ flipped = -1

\* onChange of the textarea of the encrypt section
TypeSecretText(t) ==
    /\ ui.mode = "encrypt"
    /\ ui' = [setSecretText(ui, t) EXCEPT !.last = ""]
    /\ UNCHANGED hookVars

\* onChange of the password input of either section
TypePassword(p) ==
    /\ ui' = [setPassword(ui, p) EXCEPT !.last = ""]
    /\ UNCHANGED hookVars

\* onChange of the confirmation input of the encrypt section
TypeConfirmPassword(p) ==
    /\ ui.mode = "encrypt"
    /\ ui' = [setConfirmPassword(ui, p) EXCEPT !.last = ""]
    /\ UNCHANGED hookVars

\* onClick of a medium button
ClickMedium(m) ==
    /\ ui' = [(IF ui.mode = "decrypt"
               THEN setUploadedFile(setMedium(ui, m), NullFile)
               ELSE setMedium(ui, m))
              EXCEPT !.last = ""]
    /\ UNCHANGED hookVars

\* handleModeSwitch(newMode): starts the tween
ClickMode(newMode) ==
    /\ ui.mode # newMode
    /\ ui.switching = ""
    /\ ui' = [ui EXCEPT !.switching = newMode, !.last = ""]
    /\ UNCHANGED hookVars

\* onComplete of the tween: setMode(newMode)
ModeSwitchComplete ==
    /\ ui.switching # ""
    /\ ui' = [setMode(ui, ui.switching) EXCEPT
                 !.switching = "", !.last = "setMode"]
    /\ UNCHANGED hookVars

\* handleFileChange / handleDrop with a file
UploadFile(f) ==
    /\ ui.mode = "decrypt"
    /\ ui' = [setUploadedFile(ui, f) EXCEPT !.last = ""]
    /\ UNCHANGED hookVars

\* onClick of "Start Over"
ClickReset ==
    /\ ui.processState \in {"success", "error"}
    /\ ui' = [reset(ui) EXCEPT !.last = ""]
    /\ UNCHANGED hookVars

\* handleEncrypt up to its first await that yields to the event loop (image),
\* or to its end (audio: the promise of encodeAudio is settled by its
\* executor, so no event is handled before the code after the await)
ClickEncrypt ==
    /\ ui.mode = "encrypt"
    /\ ui.processState # "processing"
    /\ LET validation == validateEncryptForm(ui)
       IN IF ~validation.valid
          THEN ui' = [setError(ui, validation.error) EXCEPT
                         !.last = ""]
          ELSE /\ RoomForOutput(ui)
               /\ LET started == [setProcessing(ui) EXCEPT
                                     !.last = ""]
                  IN IF ui.medium = "image"
                     THEN /\ FreeSlots(ui) # {}
                          /\ ui' = [started EXCEPT
                                       !.calls[FirstFree(ui)] = CallOf("encrypt", ui)]
                     ELSE ui' = encryptCompletion(
                                   started,
                                   encodeAudioSettlement(ui.secretText, ui.password))
    /\ UNCHANGED hookVars

\* handleDecrypt up to "await decode...(uploadedFile, password)"
ClickDecrypt ==
    /\ ui.mode = "decrypt"
    /\ ui.processState # "processing"
    /\ LET validation == validateDecryptForm(ui)
       IN IF ~validation.valid
          THEN ui' = [setError(ui, validation.error) EXCEPT
                         !.last = ""]
          ELSE /\ FreeSlots(ui) # {}
               /\ ui' = [setProcessing(ui) EXCEPT
                            !.calls[FirstFree(ui)] = CallOf("decrypt", ui),
                            !.last = ""]
    /\ UNCHANGED hookVars

\* the rest of handleEncrypt of call id, once the promise of encodeImage has
\* settled or the canvas was found missing
SettleEncrypt(id) ==
    /\ ui.calls[id].kind = "encrypt"
    /\ \E promise \in encodeImageSettlements(ui.calls[id].text, ui.calls[id].password)
                         \cup {Rejected("Canvas not ready")} :
          ui' = [encryptCompletion(ui, promise) EXCEPT
                     !.calls[id] = FreeCall, !.last = ""]
    /\ UNCHANGED hookVars

\* the rest of handleDecrypt of call id, once the promise of the decoder has
\* settled
SettleDecrypt(id) ==
    /\ ui.calls[id].kind = "decrypt"
    /\ \E promise \in decodeSettlements(ui.calls[id].medium, ui.calls[id].file,
                                       ui.calls[id].password) :
          ui' = [decryptCompletion(ui, promise) EXCEPT
                     !.calls[id] = FreeCall, !.last = ""]
    /\ UNCHANGED hookVars

UINext ==
    \/ \E t \in SecretTexts : TypeSecretText(t)
    \/ \E p \in UIPasswords : TypePassword(p)
    \/ \E p \in {<<>>, <<112, 119, 49, 50>>} : TypeConfirmPassword(p)
    \/ \E m \in {"image", "audio"} : ClickMedium(m)
    \/ \E m \in {"encrypt", "decrypt"} : ClickMode(m)
    \/ ModeSwitchComplete
    \/ \E f \in UploadFiles : UploadFile(f)
    \/ ClickReset
    \/ ClickEncrypt
    \/ ClickDecrypt
    \/ \E id \in 1..MaxCalls : SettleEncrypt(id)
    \/ \E id \in 1..MaxCalls : SettleDecrypt(id)

UISpec == UIInit /\ [][UINext]_vars

\* the page with one valid text, a right and a wrong password and the
\* uploads that pass the validation of their medium
UIFlowNext ==
    \/ TypeSecretText(TextOf(1, MAX_SECRET_LENGTH - 1))
    \/ \E p \in UIPasswords \ {<<>>} : TypePassword(p)
    \/ TypeConfirmPassword(<<112, 119, 49, 50>>)
    \/ \E m \in {"image", "audio"} : ClickMedium(m)
    \/ \E m \in {"encrypt", "decrypt"} : ClickMode(m)
    \/ ModeSwitchComplete
    \/ \E f \in {g \in UploadFiles : g.isImage \/ g.isAudio} : UploadFile(f)
    \/ ClickReset
    \/ ClickEncrypt
    \/ ClickDecrypt
    \/ \E id \in 1..MaxCalls : SettleEncrypt(id)
    \/ \E id \in 1..MaxCalls : SettleDecrypt(id)

\* the browser fires the callbacks of every pending call: the timer and the
\* toBlob callback of an image encode, the load and error events of the
\* FileReader and of the Image of a decode
UIFair ==
    /\ UIInit
    /\ [][UIFlowNext]_vars
    /\ \A id \in 1..MaxCalls :
          WF_vars(SettleEncrypt(id)) /\ WF_vars(SettleDecrypt(id))

(***************************************************************************)
(* Properties                                                              *)
(***************************************************************************)
TooLong == Rejected("Message too long")

\* the encode at hand built a frame and ran its LSB loop
EmbedRan == op = "encode" /\ frame # <<>> /\ result # TooLong

\* element k (1-based) of the buffer of an encode is written by the loop over
\* a frame of n bits
AddressedBy(medium, k, n) ==
    IF medium = "image"
    THEN (k - 1) % 4 = 2 /\ (k - 1) \div 4 < n
    ELSE k - 1 < n

\* the frame bit that belongs to the addressed element k
FrameBitFor(medium, k) ==
    IF medium = "image" THEN frame[((k - 1) \div 4) + 1] ELSE frame[k]

InElementRange(medium, v) ==
    IF medium = "image" THEN v \in 0..255 ELSE v \in -32768..32767

\* C1 (as claimed): decode with the password of the encode returns the
\* plaintext of the encode, for every message the encode accepted; followed
\* by lengths, the decode of what an accepted encode produced reaches the
\* payload and reads all of its bits.
C1_RoundTrip ==
    /\ (op = "decode" /\ hidden.present /\ flipped = -1
           /\ args.password = hidden.password)
          => result = Resolved(hidden.text)
    /\ (lv.kind = "decode" /\ lv.produced)
          => (lv.outcome = "payload" /\ lv.bitsRead = lv.header)

\* the part of C1 that holds: the round trip of the messages of the bit level
RoundTripBitLevel ==
    (op = "decode" /\ hidden.present /\ flipped = -1
       /\ args.password = hidden.password)
        => result = Resolved(hidden.text)

\* C2: decode of a carrier that a successful encode produced, with a
\* password other than the one of the encode, rejects; it never resolves.
C2_WrongPassword ==
    (op = "decode" /\ hidden.present /\ flipped = -1
       /\ args.password # hidden.password)
        => (result.state = "rejected" /\ unframed # Null)

C2_Witness ==
    /\ op = "decode"
    /\ hidden.present
    /\ flipped = -1
    /\ args.password # hidden.password
    /\ args.password # <<>>
    /\ result = Rejected("Invalid password or corrupted data")

\* C3: after the LSB loop of encode every element the frame does not address
\* holds the value it had before the loop (red, green and alpha bytes, blue
\* bytes of pixels from the frame length on, samples from the frame length
\* on), and the canvas written back agrees with the buffer.
C3_Bystanders ==
    op = "encode" =>
        /\ Len(after) = Len(before)
        /\ \A k \in 1..Len(before) :
              ~AddressedBy(carrier.medium, k, Len(frame)) =>
                  /\ after[k] = before[k]
                  /\ result.state = "resolved" => carrier.data[k] = before[k]

C3_Witness ==
    /\ op = "encode"
    /\ carrier.medium = "image"
    /\ result.state = "resolved"
    /\ carrier.len > Len(frame)
    /\ after # before

\* C4: every element the LSB loop addressed keeps all bits above bit 0
\* (the sign of a sample included), carries the frame bit in bit 0 and stays
\* in the range of its element type.
C4_LowBitOnly ==
    EmbedRan =>
        \A k \in 1..Len(after) :
            AddressedBy(carrier.medium, k, Len(frame)) =>
                /\ after[k] \div 2 = before[k] \div 2
                /\ after[k] % 2 = FrameBitFor(carrier.medium, k)
                /\ InElementRange(carrier.medium, after[k])

C4_Witness ==
    /\ EmbedRan
    /\ carrier.medium = "audio"
    /\ \E k \in 1..Len(frame) : before[k] < 0 /\ after[k] # before[k]
    /\ \E k \in 1..Len(frame) : before[k] = -32768 /\ after[k] = -32767

\* C5 (as claimed): a frame of N - 48 bits is accepted by a carrier of N
\* units and a frame of N - 47 bits is rejected with the capacity error.
C5_BoundaryAt48 ==
    /\ (op = "encode" /\ carrier.medium = "image" /\ frame # <<>>) =>
          /\ Len(frame) = carrier.len - 48 => result # TooLong
          /\ Len(frame) = carrier.len - 47 => result = TooLong
    /\ lv.kind = "encode" =>
          /\ lv.frameLength = lv.units - 48 => lv.accepted
          /\ lv.frameLength = lv.units - 47 => ~lv.accepted

\* C5 (amended): encode rejects with the capacity error exactly when the
\* frame is longer than the N units of the carrier; a frame of exactly N bits
\* is accepted and a frame of N + 1 bits is rejected.
C5_BoundaryAtN ==
    /\ (op = "encode" /\ carrier.medium = "image" /\ frame # <<>>) =>
          (result = TooLong <=> Len(frame) > carrier.len)
    /\ (op = "encode" /\ carrier.medium = "audio" /\ frame # <<>>) =>
          (result # TooLong /\ Len(frame) <= carrier.len)
    /\ lv.kind = "encode" =>
          /\ lv.accepted <=> lv.frameLength <= lv.units
          /\ lv.frameLength = lv.units => lv.accepted
          /\ lv.frameLength = lv.units + 1 => ~lv.accepted

C5_Witness ==
    /\ op = "encode"
    /\ carrier.medium = "image"
    /\ Len(frame) = carrier.len
    /\ result.state = "resolved"

\* C6 (as claimed): calculateImageCapacity(w, h) is max(0, floor((w*h - 48)
\* / 8)) and never negative, and canFitInImage(text, w, h) is true exactly
\* when 8 * len(text) <= w*h - 48, for every text and all dimensions.
C6_Planner ==
    lv.kind = "capacity" =>
        /\ lv.capacity = Max(0, ((lv.width * lv.height) - 48) \div 8)
        /\ lv.capacity >= 0
        /\ lv.fits <=> (8 * lv.textLength <= (lv.width * lv.height) - 48)

\* the part of C6 that holds: the capacity, and the fit of a non-empty text
PlannerNonEmpty ==
    lv.kind = "capacity" =>
        /\ lv.capacity = Max(0, ((lv.width * lv.height) - 48) \div 8)
        /\ lv.capacity >= 0
        /\ lv.textLength > 0 =>
              (lv.fits <=> (8 * lv.textLength <= (lv.width * lv.height) - 48))

\* C7: an encode that rejects with the capacity error has modified no
\* element of its buffer and has not written the canvas back.
C7_RejectionNoOp ==
    /\ (op = "encode" /\ result = TooLong) =>
          /\ after = before
          /\ carrier.medium = "image" => carrier.data = before
    /\ (lv.kind = "encode" /\ ~lv.accepted) => lv.writes = 0

C7_Witness ==
    /\ op = "encode"
    /\ result = TooLong
    /\ carrier.medium = "image"
    /\ Len(frame) > carrier.len
    /\ \E k \in 1..Len(before) :
          AddressedBy("image", k, Len(frame)) /\ before[k] % 2 # FrameBitFor("image", k)

\* the decoder of the medium accepts header value L on a carrier of N units
DecoderAccepts(medium, L, N) ==
    IF medium = "image" THEN extractLengthOk(L, N)
    ELSE N >= 48 /\ audioLengthOk(L, N)

\* C8 (as claimed): the header L written by an encode that succeeds has
\* 0 < L <= N - 32 and passes the length validation of the decoder of the
\* same medium on a carrier of the same N units.
C8_HeaderInvariant ==
    /\ (op = "encode" /\ result.state = "resolved") =>
          LET L == ParseBinary(SubSeq(frame, 1, 32))
          IN /\ 0 < L
             /\ L <= carrier.len - 32
             /\ DecoderAccepts(carrier.medium, L, carrier.len)
    /\ (lv.kind = "encode" /\ lv.accepted) =>
          /\ 0 < lv.header
          /\ lv.header <= lv.units - 32
          /\ DecoderAccepts(lv.medium, lv.header, lv.units)

\* all bits the decoder can extract from the carrier at hand (for a WAV, the
\* bits of the represented samples)
RawBits ==
    IF carrier.medium = "image" THEN imageExtractLoop(carrier)
    ELSE [k \in 1..Len(carrier.data) |-> carrier.data[k] % 2]

\* the unsigned big-endian value of the first 32 bits
HeaderOf(bits) == ParseBinary(SubSeq(bits, 1, Min(32, Len(bits))))

\* what unframing gives under a bad-length test
UnframedIf(bad, L) ==
    IF bad THEN Null ELSE Str(binaryToString(SubSeq(RawBits, 33, 32 + L)))

\* C9 (as claimed): on both decoders unframing fails exactly when L = 0 or
\* L > N - 32, and otherwise converts exactly the bits [32, 32 + L).
C9_UnframeAt32 ==
    /\ (op = "decode" /\ (carrier.medium = "audio" => carrier.len >= 48)) =>
          LET L == HeaderOf(RawBits)
          IN unframed = UnframedIf(L = 0 \/ L > carrier.len - 32, L)
    /\ (lv.kind = "decode" /\ lv.outcome # "too_short") =>
          /\ lv.outcome = "bad_length" <=> (lv.header = 0 \/ lv.header > lv.units - 32)
          /\ lv.outcome = "payload" => lv.bitsRead = lv.header

\* the bad-length test of each decoder
BadLength(medium, L, N) ==
    IF medium = "image" THEN L = 0 \/ L > N - 32
    ELSE L = 0 \/ L > N - 48 \/ L > 1000000

\* C9 (amended): the image decoder fails unframing exactly when L = 0 or
\* L > N - 32; the audio decoder, on a file of at least 48 samples, exactly
\* when L = 0 or L > N - 48 or L > 1000000; otherwise each converts exactly
\* the bits [32, 32 + L).
C9_UnframePerDecoder ==
    /\ (op = "decode" /\ (carrier.medium = "audio" => carrier.len >= 48)) =>
          LET L == HeaderOf(RawBits)
          IN unframed = UnframedIf(BadLength(carrier.medium, L, carrier.len), L)
    /\ (lv.kind = "decode" /\ lv.outcome # "too_short") =>
          /\ lv.outcome = "bad_length" <=> BadLength(lv.medium, lv.header, lv.units)
          /\ lv.outcome = "payload" => lv.bitsRead = lv.header

C9_Witness ==
    /\ op = "decode"
    /\ carrier.medium = "audio"
    /\ carrier.len >= 48
    /\ HeaderOf(RawBits) > carrier.len - 48
    /\ HeaderOf(RawBits) <= carrier.len - 32
    /\ unframed = Null
    /\ result = Rejected("No hidden data found or corrupted file")

\* C10 (as claimed): a header value above 1000000 ends every decode, image
\* and audio, in the bad-length failure, however large the carrier is.
C10_LargeHeaderRejected ==
    /\ (op = "decode" /\ HeaderOf(RawBits) > 1000000) => unframed = Null
    /\ (lv.kind = "decode" /\ lv.header > 1000000) => lv.outcome # "payload"

\* the messages a decode of the medium rejects with (an error thrown inside
\* the image decode is passed on with its own message)
DecodeErrors(medium) ==
    IF medium = "image"
    THEN {"No hidden data found in this image", "Invalid password or corrupted data",
          "Failed to load image", "Failed to read file",
          "Both encryptedText and password are required"}
    ELSE {"Audio file too short to contain hidden data",
          "No hidden data found or corrupted file", "Failed to extract hidden data",
          "Invalid password or corrupted data",
          "Failed to read audio file. Make sure it's a valid NEBULA WAV file.",
          "Failed to read audio file"}

\* C11: on every carrier content, embedded into or not, unframing gives null
\* or a string, and the decode promise settles: resolved with a plaintext or
\* rejected with one of the messages of its decoder.
C11_DecodeSettles ==
    op = "decode" =>
        /\ unframed.kind \in {"null", "str"}
        /\ \/ result.state = "resolved"
           \/ result.state = "rejected" /\ result.error \in DecodeErrors(carrier.medium)

C11_Witness ==
    /\ op = "decode"
    /\ carrier.medium = "image"
    /\ args.password = <<>>
    /\ unframed.kind = "str"
    /\ unframed.val # <<>>
    /\ result = Rejected("Both encryptedText and password are required")

\* the header value the encode of the hidden message wrote
HiddenLength == 8 * Len(encryptText(hidden.text, hidden.password).val)

\* C12 (as claimed): after a successful encode, a change of the LSB at any
\* one frame position of the header or of the payload makes decode with the
\* password of the encode reject.
C12_TamperDetected ==
    (op = "decode" /\ hidden.present /\ args.password = hidden.password
       /\ flipped >= 0 /\ flipped < 32 + HiddenLength)
        => result.state = "rejected"

\* what holds in place of C12 on the positions of the model: a change of the
\* header bits of weight 4, 2 or 1 goes unnoticed, every other change in
\* header or payload makes the decode reject
TamperOutcome ==
    (op = "decode" /\ hidden.present /\ args.password = hidden.password
       /\ flipped >= 0 /\ flipped < 32 + HiddenLength)
        => IF flipped \in {29, 30, 31} THEN result = Resolved(hidden.text)
           ELSE result.state = "rejected"

\* C13: where the header is valid, a change of an LSB behind the payload
\* (in the delimiter or after it) changes nothing in what decode unframes and
\* settles with: it is what the decode of the unchanged carrier gives.
C13_HeaderAuthoritative ==
    (op = "decode" /\ flipped >= 0 /\ flipped - 32 >= HeaderOf(RawBits)) =>
        LET other == DecodeOf(FlipAt(carrier, flipped), args.password)
        IN /\ unframed = other.unframed
           /\ result = other.promise
           /\ unframed # Null

C13_Witness ==
    /\ op = "decode"
    /\ hidden.present
    /\ flipped >= 32 + HiddenLength
    /\ flipped < 48 + HiddenLength
    /\ result = Resolved(hidden.text)

\* bit k (1-based, most significant first) of the w-bit value n, n < 2^31
BitOf(n, w, k) == IF w - k >= 31 THEN 0 ELSE (n \div (2 ^ (w - k))) % 2

\* 8 bits per character, most significant bit first, in character order
EightBitsEach(str) ==
    [i \in 1..(8 * Len(str)) |-> BitOf(str[((i - 1) \div 8) + 1], 8, ((i - 1) % 8) + 1)]

\* header of 32 bits, the bits of the ciphertext, the delimiter
LayoutOf(c) ==
    [k \in 1..32 |-> BitOf(8 * Len(c), 32, k)] \o EightBitsEach(c)
        \o <<1, 1, 1, 1, 1, 1, 1, 1, 1, 1, 1, 1, 1, 1, 1, 0>>

\* C14: the frame of a ciphertext C, built by prepareDataForEmbedding and
\* built inline by the audio encode, is the 32-bit big-endian bit length of
\* to_bits(C), then to_bits(C), then 1111111111111110: 32 + 8 * len(C) + 16
\* bits in all.
C14_FrameLayout ==
    /\ (op = "encode" /\ frame # <<>>) =>
          LET c == encryptText(args.text, args.password).val
          IN frame = LayoutOf(c) /\ Len(frame) = 32 + (8 * Len(c)) + 16
    /\ lv.kind = "frame" =>
          /\ lv.image = LayoutOf(lv.input)
          /\ lv.audio = LayoutOf(lv.input)
          /\ Len(lv.image) = 32 + (8 * Len(lv.input)) + 16

C14_Witness ==
    /\ op = "encode"
    /\ carrier.medium = "image"
    /\ result.state = "resolved"
    /\ Len(frame) = 192
    /\ SubSeq(frame, 25, 32) = <<1, 0, 0, 1, 0, 0, 0, 0>>
    /\ SubSeq(frame, 177, 192) = END_DELIMITER

\* C15 (as claimed): stringToBinary emits exactly 8 bits per character, most
\* significant bit first, in character order, for every input string: the
\* output has 8 * len(text) bits and the group at offset 8 * (i - 1) spells
\* character i.
C15_EightBitsPerChar ==
    lv.kind = "to_bits" =>
        /\ Len(lv.output) = 8 * Len(lv.input)
        /\ \A i \in 1..Len(lv.input) :
              ParseBinary(SubSeq(lv.output, (8 * i) - 7, 8 * i)) = lv.input[i]

\* the part of C15 that holds: strings of characters below code 256
ToBitsBelow256 ==
    (lv.kind = "to_bits" /\ \A i \in 1..Len(lv.input) : lv.input[i] < 256)
        => lv.output = EightBitsEach(lv.input)

\* the value of the i-th complete group of 8 bits
GroupValue(bits, i) ==
    LET g == SubSeq(bits, (8 * i) - 7, 8 * i)
    IN (128 * g[1]) + (64 * g[2]) + (32 * g[3]) + (16 * g[4]) + (8 * g[5])
           + (4 * g[6]) + (2 * g[7]) + g[8]

\* the number of complete groups before the first zero group
GroupsBeforeZero(bits) ==
    LET n == Len(bits) \div 8
        zeros == {i \in 1..n : GroupValue(bits, i) = 0}
    IN IF zeros = {} THEN n
       ELSE (CHOOSE i \in zeros : \A j \in zeros : i <= j) - 1

\* C16: binaryToString reads groups of 8 bits from the start and returns the
\* characters of the groups before the first zero group (or before the
\* incomplete rest); no bit after a zero group contributes.
C16_FromBitsTerminator ==
    lv.kind = "from_bits" =>
        /\ Len(lv.output) = GroupsBeforeZero(lv.input)
        /\ \A i \in 1..Len(lv.output) : lv.output[i] = GroupValue(lv.input, i)

C16_Witness ==
    /\ lv.kind = "from_bits"
    /\ Len(lv.input) >= 24
    /\ GroupValue(lv.input, 1) = 65
    /\ GroupValue(lv.input, 2) = 0
    /\ GroupValue(lv.input, 3) = 255
    /\ lv.output = <<65>>

\* C17 (as claimed): for every ciphertext string, the empty one included, and
\* every password, decryptText returns a plaintext or null and never throws.
C17_DecryptNeverRaises ==
    lv.kind = "decrypt" => lv.output.kind \in {"str", "null"}

\* the part of C17 that holds: with a non-empty ciphertext and a non-empty
\* password decryptText returns a plaintext or null, and null both for text
\* that is no ciphertext and for a marker mismatch
DecryptNonEmpty ==
    (lv.kind = "decrypt" /\ lv.input # <<>> /\ lv.password # <<>>) =>
        /\ lv.output.kind \in {"str", "null"}
        /\ lv.input \in {<<97, 98, 99>>, <<200, 7>>} => lv.output = Null

\* C18: encryptText throws the invalid-input error when the plaintext or the
\* password is empty; otherwise it returns a non-empty ciphertext, and that
\* is the ciphertext of NEBULA::plaintext::NEBULA under the password.
C18_EncryptValidation ==
    lv.kind = "encrypt" =>
        IF lv.input = <<>> \/ lv.password = <<>>
        THEN lv.output = Throw("Both plainText and password are required")
        ELSE /\ lv.output.kind = "str"
             /\ lv.output.val # <<>>
             /\ AESDecrypt(lv.output.val, lv.password)
                   = Str(<<78, 69, 66, 85, 76, 65, 58, 58>> \o lv.input
                           \o <<58, 58, 78, 69, 66, 85, 76, 65>>)

C18_Witness ==
    /\ lv.kind = "encrypt"
    /\ lv.input # <<>>
    /\ lv.password = <<>>
    /\ lv.output.kind = "throw"

\* C19: the audio encode chooses a duration of at least 20 s and at most
\* 120 s for every message, and rejects a frame of more bits than 120 s at
\* 44100 Hz have samples, writing nothing.
C19_AudioDuration ==
    /\ (lv.kind = "encode" /\ lv.medium = "audio") =>
          /\ lv.duration >= 200
          /\ lv.duration <= 1200
          /\ lv.units * 10 = 44100 * lv.duration
          /\ lv.frameLength > 44100 * 120 => (~lv.accepted /\ lv.writes = 0)
    /\ (op = "encode" /\ carrier.medium = "audio" /\ result.state = "resolved") =>
          /\ carrier.len >= 44100 * 20
          /\ carrier.len <= 44100 * 120

C19_Witness ==
    /\ lv.kind = "encode"
    /\ lv.medium = "audio"
    /\ lv.frameLength > 44100 * 120
    /\ lv.duration = 1200
    /\ ~lv.accepted

\* the letters a..z written as A..Z
ToUpperCase(text) ==
    [i \in 1..Len(text) |-> IF text[i] >= 97 /\ text[i] <= 122 THEN text[i] - 32 ELSE text[i]]

\* the words of a list that occur in the text, letter case aside
Matches(words, text) ==
    {w \in {words[i] : i \in 1..Len(words)} :
        \E i \in 1..Len(text) :
            i + Len(w) - 1 <= Len(text)
            /\ ToUpperCase(SubSeq(text, i, i + Len(w) - 1)) = ToUpperCase(w)}

\* C20: detectEmotion returns warm when the warm list has strictly more
\* matches than the cold list (and at least one), cold in the symmetric case,
\* neutral otherwise (equal counts, zero or not); the letter case of the text
\* does not matter.
C20_Classify ==
    lv.kind = "emotion" =>
        LET w == Cardinality(Matches(WARM_WORDS, lv.input))
            c == Cardinality(Matches(COLD_WORDS, lv.input))
        IN /\ lv.output = "warm" <=> (w > c /\ w > 0)
           /\ lv.output = "cold" <=> (c > w /\ c > 0)
           /\ lv.output = "neutral" <=> (w = c)
           /\ lv.output = detectEmotion(ToUpperCase(lv.input))
           /\ lv.output = detectEmotion(ToLowerCase(lv.input))

C20_Witness ==
    /\ lv.kind = "emotion"
    /\ Cardinality(Matches(WARM_WORDS, lv.input)) = 1
    /\ Cardinality(Matches(COLD_WORDS, lv.input)) = 1
    /\ lv.input # ToLowerCase(lv.input)
    /\ lv.output = "neutral"

HeldIn(data) ==
    {m \in Plaintexts \X Passwords :
        DecodeOf([carrier EXCEPT !.data = data], m[2]).promise = Resolved(m[1])}

\* the LSB loop of the medium
embedLoopOf(medium, data, bits) ==
    IF medium = "image" THEN imageEmbedLoop(data, bits) ELSE audioEmbedLoop(data, bits)

\* the frames of the messages an encode accepts
SecondFrames ==
    {m \in Plaintexts \X Passwords : encryptText(m[1], m[2]).kind = "str"}

\* C30: an embed into a carrier that already holds a frame makes decode
\* return the message of the second embed, whether it is shorter or longer
\* than the first, and embedding the frame of an encode a second time leaves
\* the carrier as it is.  For an image the second embed is a second encode
\* on the canvas of the first; for both media the loop is also applied once
\* more, with every accepted message, to the buffer an encode produced.
C30_LastEmbedWins ==
    (EmbedRan /\ result.state = "resolved") =>
        /\ HeldIn(before) # {} =>
              DecodeOf(carrier, args.password).promise = Resolved(args.text)
        /\ embedLoopOf(carrier.medium, after, frame) = after
        /\ \A m \in SecondFrames :
              LET f2 == prepareDataForEmbedding(encryptText(m[1], m[2]).val)
              IN (IF carrier.medium = "image"
                  THEN imageCapacityOk(Len(f2), carrier.len)
                  ELSE Len(f2) <= Len(after))
                    => DecodeOf([carrier EXCEPT !.data =
                                    embedLoopOf(carrier.medium, after, f2)],
                                m[2]).promise = Resolved(m[1])

\* a second, shorter message was embedded over a longer one with another
\* password, so bits of the first frame remain behind the second
C30_Witness ==
    /\ EmbedRan /\ result.state = "resolved"
    /\ carrier.medium = "image"
    /\ <<(<<104, 105>>), (<<119, 114, 111, 110, 103>>)>> \in HeldIn(before)
    /\ args.text = <<104>>
    /\ args.password = <<112, 119, 49, 50>>
    /\ after # before

(***************************************************************************)
(* The page                                                                *)
(***************************************************************************)
\* the session fields of the store have their initial values
SessionReset(u) ==
    /\ u.secretText = TextOf(0, 0)
    /\ u.password = <<>>
    /\ u.confirmPassword = <<>>
    /\ u.uploadedFile = NullFile
    /\ u.generatedOutput = 0
    /\ u.outputURL = 0
    /\ u.processState = "idle"
    /\ u.errorMessage = ""
    /\ u.revealedSecret = <<>>
    /\ u.showSuccess = FALSE

\* C22: the step of setMode(m), taken when the tween of a mode switch to m
\* completes, leaves mode = m, every session field at its initial value with
\* processState idle, and medium as it was, whatever the state before; and
\* every state reached by setMode has the session fields reset.
C22_ModeChangeResets ==
    /\ [](ui.last = "setMode" => SessionReset(ui))
    /\ [][(ui.switching # "" /\ ui'.switching = "") =>
             /\ ui'.mode = ui.switching
             /\ ui'.medium = ui.medium
             /\ SessionReset(ui')]_vars

\* setMode ran while a call was pending, after the medium had been changed
C22_Witness ==
    /\ ui.last = "setMode"
    /\ ui.mode = "decrypt"
    /\ ui.medium = "audio"
    /\ PendingCalls(ui) # {}
    /\ SessionReset(ui)

\* C23 (as claimed): at most one encode or decode is pending at any time, and
\* processState is 'processing' for as long as one is pending.
C23_SingleInFlight ==
    /\ Cardinality(PendingCalls(ui)) <= 1
    /\ PendingCalls(ui) # {} => ui.processState = "processing"

\* C24 (as claimed): generatedOutput and outputURL are non-null only in
\* encrypt mode and revealedSecret is non-empty only in decrypt mode.
C24_NoStaleCompletion ==
    /\ (ui.generatedOutput # 0 \/ ui.outputURL # 0) => ui.mode = "encrypt"
    /\ ui.revealedSecret # <<>> => ui.mode = "decrypt"

\* C25 (as claimed): errorMessage is non-empty exactly when processState is
\* 'error', and revealedSecret is empty whenever processState is 'error'.
C25_ErrorConsistency ==
    /\ ui.errorMessage # "" <=> ui.processState = "error"
    /\ ui.processState = "error" => ui.revealedSecret = <<>>

\* C26 (as claimed): showSuccess is true only when processState is 'success'.
C26_SuccessFlag ==
    ui.showSuccess => ui.processState = "success"

\* C27 (as claimed): every unrevoked object URL of an output is the one held
\* in outputURL, so at most one exists.
C27_UrlLifecycle ==
    /\ ui.live \subseteq {ui.outputURL}
    /\ Cardinality(ui.live) <= 1

\* a step that ends a pending call
CallEnds == \E id \in 1..MaxCalls : ui.calls[id].kind # "" /\ ui'.calls[id].kind = ""

\* C28: every call of handleEncrypt or handleDecrypt that has set
\* processState to 'processing' and awaits its promise comes to its end, and
\* the step that ends it is a setSuccess, setRevealedSecret or setError (each
\* leaves processState 'success' or 'error'), given that the browser fires
\* the callbacks of pending promises; processState is never 'processing'
\* with no call left to end it.
C28_ProcessingTerminates ==
    /\ \A id \in 1..MaxCalls : (ui.calls[id].kind # "") ~> (ui.calls[id].kind = "")
    /\ [][CallEnds => ui'.processState \in {"success", "error"}]_vars
    /\ [](ui.processState = "processing" => PendingCalls(ui) # {})

\* a decode with a wrong password was ended by setError
C28_Witness ==
    /\ ui.mode = "decrypt"
    /\ ui.processState = "error"
    /\ ui.errorMessage = "Wrong password. Please try again."
    /\ PendingCalls(ui) = {}

\* what the claim requires of the form of an encrypt and of a decrypt
GateEncrypt(u) ==
    /\ LengthOf(Trim(u.secretText)) > 0
    /\ LengthOf(u.secretText) <= 5000
    /\ Len(u.password) >= 4
    /\ u.password = u.confirmPassword
GateDecrypt(u) == u.uploadedFile.present /\ u.password # <<>>

\* the step set the validation error and started nothing
RefusedWith(error) ==
    /\ error # ""
    /\ ui'.processState = "error"
    /\ ui'.errorMessage = error
    /\ ui'.calls = ui.calls
    /\ ui'.live = ui.live
    /\ ui'.generatedOutput = ui.generatedOutput
    /\ ui'.revealedSecret = ui.revealedSecret

\* C29: a step of handleEncrypt taken with a form that fails the gate
\* (plaintext non-empty after trimming and at most 5000 characters, password
\* of at least 4 characters equal to confirmPassword) sets the validation
\* error and starts nothing; a step of handleDecrypt without a file or
\* without a password likewise; every pending call holds values that pass
\* the gate, and encryptText never raises its invalid-input error.
C29_FormGating ==
    /\ [][/\ (ClickEncrypt /\ ~GateEncrypt(ui))
                => RefusedWith(validateEncryptForm(ui).error)
          /\ (ClickDecrypt /\ ~GateDecrypt(ui))
                => RefusedWith(validateDecryptForm(ui).error)]_vars
    /\ [](\A id \in PendingCalls(ui) :
             IF ui.calls[id].kind = "encrypt"
             THEN /\ LengthOf(Trim(ui.calls[id].text)) > 0
                  /\ LengthOf(ui.calls[id].text) <= 5000
                  /\ Len(ui.calls[id].password) >= 4
             ELSE ui.calls[id].file.present /\ ui.calls[id].password # <<>>)
    /\ [](ui.errorMessage # "Both plainText and password are required")

\* an encrypt of a text of 5000 characters with a leading blank is pending,
\* and a later click with an empty textarea was refused
C29_Witness ==
    /\ \E id \in PendingCalls(ui) :
          /\ ui.calls[id].kind = "encrypt"
          /\ LengthOf(ui.calls[id].text) = 5000
    /\ ui.mode = "encrypt"
    /\ ui.processState = "error"
    /\ ui.errorMessage = "Please enter a secret message"

=============================================================================
